---------------------------- MODULE Spec2Model ----------------------------
(***************************************************************************)
(* Telemetry ingestion and alert evaluation of the IoT dashboard backend:  *)
(* mqtt/client.js (message handler, handleTelemetry), services/            *)
(* alertEngine.js (checkThresholds, triggerAlert) and the Mongoose models  *)
(* Device, Parameter, Telemetry, Alert and AlertLog.                       *)
(*                                                                         *)
(* Every inbound MQTT message starts one async handler; handlers           *)
(* interleave at every await.  A handler's position is pc[h], its          *)
(* arguments are msg[h] and its local variables are loc[h].                *)
(*                                                                         *)
(* Optional values (a Date or Number that may be null) are sets of at most *)
(* one element: {} is null, {v} is the value v.  Time is in seconds.       *)
(***************************************************************************)
EXTENDS Integers, Sequences, FiniteSets, TLC

\* ------------------------------------------------------------------ bounds
MaxRequests == 3
MaxReadings == 3
MaxMsgs == 2
MaxTime == 1
MaxCooldown == 1
MaxAdminOps == 1

\* -------------------------------------------------------- program constants
SerialDigits == 10
DefaultCooldown == 300

\* --------------------------------------------------------------- characters
Digits == {"0", "1", "2", "3", "4", "5", "6", "7", "8", "9"}
Letters ==
  {"a", "b", "c", "d", "e", "f", "g", "h", "i", "j", "k", "l", "m",
   "n", "o", "p", "q", "r", "s", "t", "u", "v", "w", "x", "y", "z",
   "A", "B", "C", "D", "E", "F", "G", "H", "I", "J", "K", "L", "M",
   "N", "O", "P", "Q", "R", "S", "T", "U", "V", "W", "X", "Y", "Z"}
WordChars == Digits \cup Letters \cup {"_"}

\* Serial numbers are sequences of characters.
S10 == <<"1", "2", "3", "4", "5", "6", "7", "8", "9", "0">>
SWord == <<"d", "e", "v", "_", "1">>
SBad == <<"d", "e", "v", "-", "1">>
Serials == {S10, SWord, SBad}

\* Device.validateSerialNumber: /^[a-zA-Z0-9_]+$/
validateSerialNumber(s) ==
  /\ Len(s) >= 1
  /\ \A i \in 1..Len(s) : s[i] \in WordChars

\* The validator of Telemetry.serialNumber: /^\d{10}$/
telemetrySerialValidator(s) ==
  /\ Len(s) = SerialDigits
  /\ \A i \in 1..Len(s) : s[i] \in Digits

\* ------------------------------------------------------------------- values
\* A JSON value of a payload field, or an argument of validateValue:
\*   num     an integer n
\*   half    the non-integer number n + 1/2
\*   bool    true (v = 1) or false (v = 0)
\*   numstr  a string that is the numeral of the integer n
\*   str     a string that is not a numeral
\*   null    null
Num(n) == [t |-> "num", v |-> n]
Half(n) == [t |-> "half", v |-> n]
BoolV(b) == [t |-> "bool", v |-> IF b THEN 1 ELSE 0]
NumStr(n) == [t |-> "numstr", v |-> n]
NullV == [t |-> "null", v |-> 0]
StrV == [t |-> "str", v |-> 0]

\* typeof value === 'number', Number.isInteger(value), typeof value === 'string'
IsNumber(x) == x.t \in {"num", "half"}
IsInteger(x) == x.t = "num"
IsString(x) == x.t \in {"str", "numstr"}

\* value !== undefined && value !== null, for a field map d and a key k
Present(d, k) == k \in DOMAIN d /\ d[k] # NullV

\* JS truthiness of a payload value (timestamp || new Date())
Truthy(x) == \/ x.t \in {"str", "numstr", "half"}
             \/ x.t \in {"num", "bool"} /\ x.v # 0

\* JS relational comparison of a value with a number n.  The value is
\* converted to a number first (true is 1, false and null are 0, a numeral its
\* number); a string that is not a numeral converts to NaN and every
\* comparison with NaN is false.  n + 1/2 < m iff n < m, n + 1/2 > m iff n >= m.
JsLt(x, n) == \/ x.t \in {"num", "bool", "numstr", "null", "half"} /\ x.v < n
JsGt(x, n) == \/ x.t \in {"num", "bool", "numstr", "null"} /\ x.v > n
              \/ x.t = "half" /\ x.v >= n

Fields == {"temperature", "humidity"}
TsVal == Num(1)

\* The payloads a device sends: flat field maps with an optional timestamp.
Payloads ==
  { [timestamp |-> TsVal],
    [temperature |-> Num(2)],
    [temperature |-> Num(0)],
    [temperature |-> NullV],
    [temperature |-> Num(2), humidity |-> Num(2), timestamp |-> TsVal] }

\* const { timestamp, ...telemetryData } = payload
RestWithoutTimestamp_keepsTimestamp(p) == p

RestWithoutTimestamp(p) == [k \in (DOMAIN p) \ {"timestamp"} |-> p[k]]


\* -------------------------------------------------------------------- state
VARIABLES
  now,        \* the wall clock (Date.now()), in seconds
  devices,    \* the Device collection: serial number -> document
  parameters, \* the Parameter collection: a set of documents
  alerts,     \* the Alert collection, in insertion order (an alert's _id is its index)
  readings,   \* the Telemetry collection, in insertion order
  alertLogs,  \* the AlertLog collection, in insertion order
  events,     \* what global.io.emit has published, in order
  delivered,  \* the number of MQTT messages delivered so far
  adminOps,   \* the number of administrator requests served so far
  pc,         \* handler -> its position
  msg,        \* handler -> the message it was started with
  loc,        \* handler -> its local variables (and what it has done)
  requests,   \* HTTP request (POST /api/alerts) -> its position and answer
  call        \* a call of a model method: its receiver, argument and result

vars == <<now, devices, parameters, alerts, readings, alertLogs, events,
          delivered, adminOps, pc, msg, loc, requests, call>>

Handlers == 1..MaxMsgs

\* The defaults of deviceSchema (status 'offline', lastSeen null).
NoDevice ==
  [registered |-> FALSE, enabled |-> FALSE, status |-> "offline",
   lastSeen |-> {}, deviceType |-> "custom"]

NewDevice(deviceType) ==
  [registered |-> TRUE, enabled |-> TRUE, status |-> "offline",
   lastSeen |-> {}, deviceType |-> deviceType]

DeviceTypes == {"custom", "temperature_sensor"}

\* Parameter.createDefaultParameters: the parameters of a device type.
DefaultParameterDefs(deviceType) ==
  IF deviceType = "temperature_sensor"
  THEN {[name |-> "temperature", dataType |-> "float",
         minValue |-> {0 - 50}, maxValue |-> {150}]}
  ELSE {}

createDefaultParameters(deviceId, deviceType) ==
  { [deviceId |-> deviceId, name |-> def.name, enabled |-> TRUE,
     dataType |-> def.dataType, minValue |-> def.minValue,
     maxValue |-> def.maxValue] : def \in DefaultParameterDefs(deviceType) }

\* The _id of a parameter: the unique index on (deviceId, name) makes the pair
\* identify it.
ParameterId(deviceId, name) == [deviceId |-> deviceId, name |-> name]
NoParameterId == ParameterId(<<>>, "")

\* A parameter as POST /api/parameters creates it (float, no bounds), with the
\* enabled flag PUT /api/parameters/:id may have set.
FloatParameter(deviceId, name, enabled) ==
  [deviceId |-> deviceId, name |-> name, enabled |-> enabled,
   dataType |-> "float", minValue |-> {}, maxValue |-> {}]

\* parameterSchema.methods.validateValue: the type check of the data type,
\* then the range checks against the bounds that are not null.
validateValue_typeofNumber(param, value) ==
  LET typeOk ==
        CASE param.dataType = "boolean" -> value.t = "bool"
          [] param.dataType \in {"integer", "unsigned_integer", "float", "sfloat"} ->
               IsNumber(value)
          [] param.dataType = "string" -> IsString(value)
          [] OTHER -> TRUE
  IN  /\ typeOk
      /\ ~(param.minValue # {} /\ \E m \in param.minValue : JsLt(value, m))
      /\ ~(param.maxValue # {} /\ \E m \in param.maxValue : JsGt(value, m))

validateValue(param, value) ==
  LET typeOk ==
        CASE param.dataType = "boolean" -> value.t = "bool"
          [] param.dataType \in {"integer", "unsigned_integer"} ->
               /\ IsInteger(value)
               /\ ~(param.dataType = "unsigned_integer" /\ JsLt(value, 0))
          [] param.dataType \in {"float", "sfloat"} -> IsNumber(value)
          [] param.dataType = "string" -> IsString(value)
          [] OTHER -> TRUE
  IN  /\ typeOk
      /\ ~(param.minValue # {} /\ \E m \in param.minValue : JsLt(value, m))
      /\ ~(param.maxValue # {} /\ \E m \in param.maxValue : JsGt(value, m))

\* Parameter.getDeviceParameters: find({deviceId, enabled: true}).sort().lean().
\* A lean query returns plain objects: the schema's methods (validateValue) are
\* not on them.  The sort order is not observable in handleTelemetry.
getDeviceParameters(deviceId) ==
  { [doc |-> p, hasMethods |-> FALSE] :
      p \in {q \in parameters : q.deviceId = deviceId /\ q.enabled} }

\* An alert rule as POST /api/alerts/:serialNumber creates it and
\* PUT /api/alerts/:id may have changed it (cooldownPeriod).
NewAlert(deviceId, parameterName, upper, lower, email, cooldown) ==
  [deviceId |-> deviceId, parameterName |-> parameterName, enabled |-> TRUE,
   upperThreshold |-> upper, lowerThreshold |-> lower,
   email |-> email, cooldownPeriod |-> cooldown,
   lastTriggered |-> {}, triggerCount |-> 0, severity |-> "medium"]

Threshold(value, enabled) == [value |-> value, enabled |-> enabled]
Email(enabled, recipients) == [enabled |-> enabled, recipients |-> recipients]

\* alertSchema.methods.shouldTrigger, evaluated at time t
shouldTrigger(alert, value, t) ==
  LET no == [shouldTrigger |-> FALSE, thresholdType |-> "none", threshold |-> 0]
  IN
  IF ~alert.enabled THEN no
  ELSE IF /\ alert.lastTriggered # {}
          /\ \E lt \in alert.lastTriggered : t - lt < alert.cooldownPeriod
  THEN no
  ELSE IF /\ alert.upperThreshold.enabled
          /\ alert.upperThreshold.value # {}
          /\ \E u \in alert.upperThreshold.value : JsGt(value, u)
  THEN [shouldTrigger |-> TRUE, thresholdType |-> "upper",
        threshold |-> CHOOSE u \in alert.upperThreshold.value : TRUE]
  ELSE IF /\ alert.lowerThreshold.enabled
          /\ alert.lowerThreshold.value # {}
          /\ \E l \in alert.lowerThreshold.value : JsLt(value, l)
  THEN [shouldTrigger |-> TRUE, thresholdType |-> "lower",
        threshold |-> CHOOSE l \in alert.lowerThreshold.value : TRUE]
  ELSE no

\* Alert.getActiveAlerts: find({deviceId, enabled: true, $or: [upper enabled,
\* lower enabled]}).populate().lean(): plain objects in collection order, each
\* with the _id of its rule; the schema's methods (shouldTrigger,
\* recordTrigger) are not on them.
getActiveAlerts_hydrated(deviceId) ==
  LET Active(i) ==
        /\ alerts[i].deviceId = deviceId
        /\ alerts[i].enabled
        /\ (alerts[i].upperThreshold.enabled \/ alerts[i].lowerThreshold.enabled)
      ids == SelectSeq([i \in 1..Len(alerts) |-> i], Active)
  IN  [j \in 1..Len(ids) |->
         [id |-> ids[j], doc |-> alerts[ids[j]], hasMethods |-> TRUE]]

getActiveAlerts(deviceId) ==
  LET Active(i) ==
        /\ alerts[i].deviceId = deviceId
        /\ alerts[i].enabled
        /\ (alerts[i].upperThreshold.enabled \/ alerts[i].lowerThreshold.enabled)
      ids == SelectSeq([i \in 1..Len(alerts) |-> i], Active)
  IN  [j \in 1..Len(ids) |->
         [id |-> ids[j], doc |-> alerts[ids[j]], hasMethods |-> FALSE]]

\* ------------------------------------------------------- handler locals
NoCheck == [shouldTrigger |-> FALSE, thresholdType |-> "none", threshold |-> 0]

\* The locals of a handler that has not started.  Of the device document that
\* findOne returned they keep the status: save() writes a path only when the
\* value assigned to it differs from the value that was loaded.
\* accepted, dbFailed, outcome, toEvaluate, invoked, overlaps and
\* engineReturned record what the handler has done; the handler never reads them.
InitLoc ==
  [deviceStatus |-> "offline", \* device.status as findOne loaded it
   newStatus |-> "offline",    \* device.status as the handler assigned it
   lastSeen |-> 0,             \* device.lastSeen as the handler assigned it
   data |-> <<>>,           \* telemetryData
   telemetry |-> 0,         \* the reading storeTelemetry returned (its index)
   alerts |-> <<>>,         \* const alerts = await Alert.getActiveAlerts(...)
   idx |-> 0,               \* the position of the for loop over alerts
   check |-> NoCheck,       \* const check = alert.shouldTrigger(value)
   log |-> 0,               \* const alertLog = await AlertLog.logAlert(...)
   accepted |-> FALSE,      \* the message passed every drop check
   dbFailed |-> FALSE,      \* a persistence operation of the handler failed
   outcome |-> "none",      \* dropped | error | published | unpublished
   toEvaluate |-> {},       \* the active rules whose parameter the reading has
   invoked |-> {},          \* the rules on which shouldTrigger was invoked, and when
   overlaps |-> {},         \* the handlers that were running when this one started
   engineReturned |-> FALSE] \* checkThresholds returned to handleTelemetry

\* The MQTT topic of a device's telemetry, as topic.split('/') sees it.
TelemetryTopic(serialNumber) == <<"iot", "devices", serialNumber, "telemetry">>

StatusTopic(serialNumber) == <<"iot", "devices", serialNumber, "status">>
RegisterTopic == <<"iot", "devices", "register">>

\* topicParts[i] (1-based here); undefined past the end.
Part(topicParts, i) ==
  IF i <= Len(topicParts) THEN topicParts[i] ELSE "undefined"

\* The body of an MQTT message:
\*   body          what JSON.parse makes of it: notjson (it throws), null,
\*                 number, string, array or object
\*   payload       the own enumerable properties of the parsed value that a
\*                 telemetry handler reads (the fields of an object, the
\*                 indices of a string or an array)
\*   status        payload.status, or "undefined"
\*   serialNumber  payload.serialNumber of a registration probe
Object(payload) ==
  [body |-> "object", payload |-> payload, status |-> "undefined",
   serialNumber |-> <<>>]
StatusObject(status) ==
  [body |-> "object", payload |-> <<>>, status |-> status, serialNumber |-> <<>>]
RegistrationObject(serialNumber) ==
  [body |-> "object", payload |-> <<>>, status |-> "undefined",
   serialNumber |-> serialNumber]
NonObject(body) ==
  [body |-> body,
   payload |-> CASE body = "string" -> [k \in {"0"} |-> StrV]
                 [] body = "array" -> [k \in {"0"} |-> Num(2)]
                 [] OTHER -> <<>>,
   status |-> "undefined", serialNumber |-> <<>>]

NoMessage == [topic |-> <<>>] @@ Object(<<>>)

\* The messages that arrive: every payload for S10, and for the other serial
\* numbers a payload with a value and (SWord) one with a timestamp only.
Messages ==
  {[topic |-> TelemetryTopic(S10), message |-> Object(p)] : p \in Payloads}
  \cup {[topic |-> TelemetryTopic(SWord), message |-> Object(p)] :
          p \in {[temperature |-> Num(2)], [timestamp |-> TsVal]}}
  \cup {[topic |-> TelemetryTopic(SBad),
         message |-> Object([temperature |-> Num(2)])]}

\* global.io is set when server.js is loaded, before any message arrives.
GlobalIo == TRUE

\* The handler ends: its locals that nothing reads any more are dropped.
Finish(l, outcome) ==
  [l EXCEPT !.outcome = outcome, !.alerts = <<>>,
            !.idx = 0, !.check = NoCheck, !.log = 0,
            !.deviceStatus = "offline", !.newStatus = "offline", !.lastSeen = 0]

\* ------------------------------------------------ requests and calls
Requests == 1..MaxRequests

\* An HTTP request that has not arrived; response is the HTTP status answered.
NoRequest ==
  [pc |-> "idle", serialNumber |-> <<>>, parameterId |-> NoParameterId,
   response |-> 0]

\* No method call under examination.
NoCall ==
  [fn |-> "none",
   param |-> [dataType |-> "float", minValue |-> {}, maxValue |-> {}],
   value |-> NullV, result |-> "none"]

\* ------------------------------------------------------------------- Init
\* The database as the administrator's requests leave it before the first
\* message: empty, or device S10 registered (POST /api/devices) with
\* parameters (POST and PUT /api/parameters) and alert rules on them (POST and
\* PUT /api/alerts).  No rule has ever fired.
ParameterConfigs ==
  { {},
    {[name |-> "temperature", enabled |-> TRUE]},
    {[name |-> "temperature", enabled |-> FALSE],
     [name |-> "humidity", enabled |-> FALSE]} }

\* The rules: an upper threshold of 1 with e-mail and the cooldown set by PUT;
\* a lower threshold of 1 without e-mail and the schema's default cooldown.
RuleTemplates ==
  { [upper |-> Threshold({1}, TRUE), lower |-> Threshold({}, FALSE),
     email |-> Email(TRUE, 1), cooldown |-> MaxCooldown],
    [upper |-> Threshold({}, FALSE), lower |-> Threshold({1}, TRUE),
     email |-> Email(FALSE, 0), cooldown |-> DefaultCooldown] }

\* The orders in which rules on the parameters of a device were created.
RuleOrders(names) ==
  {<<>>} \cup {<<n>> : n \in names \cap {"temperature"}}
         \cup {<<n1, n2>> : <<n1, n2>> \in {q \in names \X names : q[1] # q[2]}}

Init ==
  /\ now = 0
  /\ \E registered \in {{}, {S10}} :
       /\ devices = [s \in Serials |->
                       IF s \in registered THEN NewDevice("custom") ELSE NoDevice]
       /\ \E cfg \in ParameterConfigs :
            parameters = { FloatParameter(s, c.name, c.enabled) :
                             <<s, c>> \in registered \X cfg }
  /\ \E tmpl \in RuleTemplates :
     \E order \in RuleOrders({p.name : p \in {q \in parameters : q.deviceId = S10}}) :
       alerts = [i \in 1..Len(order) |->
                   NewAlert(S10, order[i], tmpl.upper, tmpl.lower,
                            tmpl.email, tmpl.cooldown)]
  /\ readings = <<>>
  /\ alertLogs = <<>>
  /\ events = <<>>
  /\ delivered = 0
  /\ adminOps = 0
  /\ pc = [h \in Handlers |-> "idle"]
  /\ msg = [h \in Handlers |-> NoMessage]
  /\ loc = [h \in Handlers |-> InitLoc]
  /\ requests = [r \in Requests |-> NoRequest]
  /\ call = NoCall

\* ------------------------------------------------------------------ clock
Tick ==
  /\ now < MaxTime
  /\ now' = now + 1
  /\ UNCHANGED <<devices, parameters, alerts, readings, alertLogs, events,
                 delivered, adminOps, pc, msg, loc, requests, call>>

\* ------------------------------------------------------- administration
\* POST /api/devices: register a device.
RegisterDevice(serialNumber, deviceType) ==
  /\ adminOps < MaxAdminOps
  /\ adminOps' = adminOps + 1
  /\ validateSerialNumber(serialNumber)
  /\ ~devices[serialNumber].registered
  /\ devices' = [devices EXCEPT ![serialNumber] = NewDevice(deviceType)]
  /\ parameters' =
       IF deviceType # "custom"
       THEN parameters \cup createDefaultParameters(serialNumber, deviceType)
       ELSE parameters
  /\ UNCHANGED <<now, alerts, readings, alertLogs, events, delivered, pc, msg, loc, requests, call>>

\* PUT /api/devices/:serialNumber by an administrator: set the enabled flag.
UpdateDevice(serialNumber, enabled) ==
  /\ adminOps < MaxAdminOps
  /\ adminOps' = adminOps + 1
  /\ devices[serialNumber].registered
  /\ devices[serialNumber].enabled # enabled
  /\ devices' = [devices EXCEPT ![serialNumber].enabled = enabled]
  /\ UNCHANGED <<now, parameters, alerts, readings, alertLogs, events,
                 delivered, pc, msg, loc, requests, call>>

\* ------------------------------------------------------ client.on('message')
\* JSON.parse(message.toString()) in the listener: it throws on a body that is
\* not JSON, inside the listener's try.
JSONparse_outsideTry(message) ==
  [thrown |-> message.body = "notjson", caught |-> FALSE]

JSONparse(message) ==
  [thrown |-> message.body = "notjson", caught |-> TRUE]

\* An MQTT message arrives: the listener parses the body and the topic and
\* calls the handler of the message type, which runs up to its first await
\* (Device.findOne).  An exception that no catch takes ends the handler with
\* outcome "uncaught" (the listener's promise is rejected).
OnMessage(topic, message) ==
  /\ delivered < MaxMsgs
  /\ LET h == delivered + 1
         parsed == JSONparse(message)
         serialNumber == Part(topic, 3)
         messageType == Part(topic, 4)
         Ends(outcome) ==
           /\ pc' = [pc EXCEPT ![h] = "done"]
           /\ loc' = [loc EXCEPT ![h] = Finish(@, outcome)]
         Awaits(position) ==
           /\ pc' = [pc EXCEPT ![h] = position]
           /\ loc' = [loc EXCEPT ![h].overlaps =
                        {g \in Handlers : pc[g] \notin {"idle", "done"}}]
     IN  /\ pc[h] = "idle"
         /\ delivered' = h
         /\ msg' = [msg EXCEPT ![h] = [topic |-> topic] @@ message]
         /\ CASE parsed.thrown ->
                   Ends(IF parsed.caught THEN "error" ELSE "uncaught")
              [] ~parsed.thrown /\ messageType = "telemetry" ->
                   IF ~validateSerialNumber(serialNumber)
                   THEN Ends("dropped")
                   ELSE Awaits("findOne")
              [] ~parsed.thrown /\ messageType = "status" ->
                   IF ~validateSerialNumber(serialNumber)
                   THEN Ends("dropped")
                   ELSE Awaits("statusFindOne")
              [] OTHER ->
                   IF topic # RegisterTopic THEN Ends("dropped")
                   ELSE IF message.body = "null" THEN Ends("error")
                   ELSE IF ~validateSerialNumber(message.serialNumber)
                   THEN Ends("dropped")
                   ELSE Awaits("registrationFindOne")
  /\ UNCHANGED <<now, devices, parameters, alerts, readings, alertLogs, events,
                 adminOps, requests, call>>

\* The serial number the handler of a message was called with (of a
\* registration probe: payload.serialNumber).
SerialOf(h) ==
  IF msg[h].topic = RegisterTopic THEN msg[h].serialNumber
  ELSE IF Part(msg[h].topic, 1) = "diya" THEN msg[h].topic[4]
  ELSE msg[h].topic[3]

\* handleTelemetry's catch: the error is logged and the handler ends.
Caught(h, dbFailed) ==
  /\ pc' = [pc EXCEPT ![h] = "done"]
  /\ loc' = [loc EXCEPT ![h] = Finish([@ EXCEPT !.dbFailed = @ \/ dbFailed], "error")]

\* Device.findOne({ serialNumber }): the document, or null (NoDevice).
findOne_upsert(serialNumber) ==
  IF devices[serialNumber].registered
  THEN devices[serialNumber]
  ELSE NewDevice("custom")

findOne(serialNumber) == devices[serialNumber]

\* handleTelemetry, from the answer of Device.findOne to the await of
\* Parameter.getDeviceParameters: the device and payload checks.  Destructuring
\* a payload that is null throws a TypeError.
FindOne(h) ==
  /\ pc[h] = "findOne"
  /\ \E ok \in BOOLEAN :
       IF ~ok THEN Caught(h, TRUE)
       ELSE LET device == findOne(SerialOf(h))
                telemetryData == RestWithoutTimestamp(msg[h].payload)
            IN  IF ~device.registered \/ ~device.enabled
                THEN /\ pc' = [pc EXCEPT ![h] = "done"]
                     /\ loc' = [loc EXCEPT ![h] = Finish(@, "dropped")]
                ELSE IF msg[h].body = "null"
                THEN Caught(h, FALSE)
                ELSE IF DOMAIN telemetryData = {}
                THEN /\ pc' = [pc EXCEPT ![h] = "done"]
                     /\ loc' = [loc EXCEPT ![h] = Finish(@, "dropped")]
                ELSE /\ pc' = [pc EXCEPT ![h] = "getDeviceParameters"]
                     /\ loc' = [loc EXCEPT ![h].data = telemetryData,
                                           ![h].deviceStatus = device.status,
                                           ![h].accepted = TRUE]
  /\ UNCHANGED <<now, devices, parameters, alerts, readings, alertLogs, events,
                 delivered, adminOps, msg, requests, call>>

\* The validation loop of handleTelemetry over the parameters: calling
\* param.validateValue on an object that has no such method throws a
\* TypeError; a failed validation is only logged.
ValidationThrows(params, telemetryData) ==
  \E param \in params :
    /\ Present(telemetryData, param.doc.name)
    /\ ~param.hasMethods

\* handleTelemetry, from the answer of getDeviceParameters to the await of
\* Telemetry.storeTelemetry.
GetDeviceParameters(h) ==
  /\ pc[h] = "getDeviceParameters"
  /\ \E ok \in BOOLEAN :
       IF ~ok THEN Caught(h, TRUE)
       ELSE IF ValidationThrows(getDeviceParameters(SerialOf(h)), loc[h].data)
       THEN Caught(h, FALSE)
       ELSE /\ pc' = [pc EXCEPT ![h] = "storeTelemetry"]
            /\ loc' = loc
  /\ UNCHANGED <<now, devices, parameters, alerts, readings, alertLogs, events,
                 delivered, adminOps, msg, requests, call>>

\* Telemetry.storeTelemetry: the document handleTelemetry asks to store.
NewTelemetry(h, t) ==
  LET payload == msg[h].payload
      timestamp == IF "timestamp" \in DOMAIN payload /\ Truthy(payload.timestamp)
                   THEN payload.timestamp
                   ELSE Num(t)
  IN  [deviceId |-> SerialOf(h),
       serialNumber |-> SerialOf(h),
       timestamp |-> timestamp,
       data |-> loc[h].data,
       quality |-> "good",
       metadata |-> [source |-> "mqtt",
                     mqttTopic |-> <<"iot", "devices", SerialOf(h), "telemetry">>],
       by |-> h]

\* telemetry.save() runs the schema's validators: serialNumber, and a timestamp
\* that casts to a Date.
TelemetryValid(doc) ==
  /\ telemetrySerialValidator(doc.serialNumber)
  /\ doc.timestamp.t = "num"

\* handleTelemetry: Telemetry.storeTelemetry, up to the await of
\* device.updateLastSeen.
StoreTelemetry(h) ==
  /\ pc[h] = "storeTelemetry"
  /\ \E ok \in BOOLEAN :
       IF ~ok THEN Caught(h, TRUE) /\ readings' = readings
       ELSE IF ~TelemetryValid(NewTelemetry(h, now))
       THEN Caught(h, FALSE) /\ readings' = readings
       ELSE /\ readings' = Append(readings, NewTelemetry(h, now))
            /\ pc' = [pc EXCEPT ![h] = "updateLastSeen"]
            /\ loc' = [loc EXCEPT ![h].telemetry = Len(readings) + 1]
  /\ UNCHANGED <<now, devices, parameters, alerts, alertLogs, events,
                 delivered, adminOps, msg, requests, call>>

\* document.save() of a device whose status and lastSeen were assigned: the
\* update it sends sets the modified paths only, and an assignment of the
\* value that was loaded does not modify a path.  The other paths of the
\* stored document stay as they are.
save_lastSeenOnly(stored, loadedStatus, status, lastSeen) ==
  [stored EXCEPT !.lastSeen = {lastSeen}]

save(stored, loadedStatus, status, lastSeen) ==
  [stored EXCEPT !.status = IF status # loadedStatus THEN status ELSE @,
                 !.lastSeen = {lastSeen}]

\* deviceSchema.methods.updateLastSeen on the document findOne returned:
\* lastSeen = new Date(), status = 'online', save().
UpdateLastSeen(h) ==
  /\ pc[h] = "updateLastSeen"
  /\ \E ok \in BOOLEAN :
       IF ~ok THEN Caught(h, TRUE) /\ devices' = devices
       ELSE /\ devices' = [devices EXCEPT ![SerialOf(h)] =
                             save(@, loc[h].deviceStatus, "online", now)]
            /\ pc' = [pc EXCEPT ![h] = "getActiveAlerts"]
            /\ loc' = loc
  /\ UNCHANGED <<now, parameters, alerts, readings, alertLogs, events,
                 delivered, adminOps, msg, requests, call>>

\* ------------------------------------------------------------ handleStatus
\* The enum of deviceSchema.status.
StatusEnum == {"online", "offline", "error", "maintenance"}

\* payload.status || 'online'
StatusOr_alwaysOnline(status) == "online"

StatusOr(status) == IF status \in {"undefined", ""} THEN "online" ELSE status

\* handleStatus, one step per await:
\*   statusFindOne  the answer of Device.findOne; no device: return; else
\*                  device.status = payload.status || 'online' (a TypeError
\*                  when the payload is null), device.lastSeen = new Date()
\*   statusSave     device.save(), which validates status against the enum,
\*                  then the 'deviceStatus' fan-out event
\* Every exception is taken by handleStatus' catch.
HandleStatus(h) ==
  /\ pc[h] \in {"statusFindOne", "statusSave"}
  /\ \E ok \in BOOLEAN :
       CASE pc[h] = "statusFindOne" ->
              /\ IF ~ok THEN Caught(h, TRUE)
                 ELSE LET device == findOne(SerialOf(h))
                      IN  IF ~device.registered
                          THEN /\ pc' = [pc EXCEPT ![h] = "done"]
                               /\ loc' = [loc EXCEPT ![h] = Finish(@, "dropped")]
                          ELSE IF msg[h].body = "null"
                          THEN Caught(h, FALSE)
                          ELSE /\ pc' = [pc EXCEPT ![h] = "statusSave"]
                               /\ loc' = [loc EXCEPT
                                            ![h].deviceStatus = device.status,
                                            ![h].newStatus = StatusOr(msg[h].status),
                                            ![h].lastSeen = now,
                                            ![h].accepted = TRUE]
              /\ UNCHANGED <<devices, events>>
         [] pc[h] = "statusSave" ->
              IF ~ok
              THEN Caught(h, TRUE) /\ UNCHANGED <<devices, events>>
              ELSE IF loc[h].newStatus \notin StatusEnum
              THEN Caught(h, FALSE) /\ UNCHANGED <<devices, events>>
              ELSE /\ devices' = [devices EXCEPT ![SerialOf(h)] =
                                    save(@, loc[h].deviceStatus,
                                         loc[h].newStatus, loc[h].lastSeen)]
                   /\ pc' = [pc EXCEPT ![h] = "done"]
                   /\ \E emitted \in BOOLEAN :
                        IF GlobalIo /\ emitted
                        THEN /\ events' = Append(events,
                                            [name |-> "deviceStatus",
                                             serialNumber |-> SerialOf(h),
                                             status |-> loc[h].newStatus,
                                             ref |-> loc[h].lastSeen, by |-> h])
                             /\ loc' = [loc EXCEPT ![h] =
                                          Finish(@, "published")]
                        ELSE /\ events' = events
                             /\ loc' = [loc EXCEPT ![h] =
                                          Finish(@, "unpublished")]
  /\ UNCHANGED <<now, parameters, alerts, readings, alertLogs, delivered,
                 adminOps, msg, requests, call>>

\* ------------------------------------------------------ handleRegistration
\* handleRegistration, one step per await:
\*   registrationFindOne  the answer of Device.findOne; no device: return
\*                        (no auto-registration); else status = 'online',
\*                        lastSeen = new Date()
\*   registrationSave     device.save()
\* Every exception is taken by handleRegistration's catch.
HandleRegistration(h) ==
  /\ pc[h] \in {"registrationFindOne", "registrationSave"}
  /\ \E ok \in BOOLEAN :
       CASE pc[h] = "registrationFindOne" ->
              /\ IF ~ok THEN Caught(h, TRUE)
                 ELSE LET device == findOne(SerialOf(h))
                      IN  IF ~device.registered
                          THEN /\ pc' = [pc EXCEPT ![h] = "done"]
                               /\ loc' = [loc EXCEPT ![h] = Finish(@, "dropped")]
                          ELSE /\ pc' = [pc EXCEPT ![h] = "registrationSave"]
                               /\ loc' = [loc EXCEPT
                                            ![h].deviceStatus = device.status,
                                            ![h].newStatus = "online",
                                            ![h].lastSeen = now,
                                            ![h].accepted = TRUE]
              /\ devices' = devices
         [] pc[h] = "registrationSave" ->
              IF ~ok
              THEN Caught(h, TRUE) /\ devices' = devices
              ELSE /\ devices' = [devices EXCEPT ![SerialOf(h)] =
                                    save(@, loc[h].deviceStatus,
                                         loc[h].newStatus, loc[h].lastSeen)]
                   /\ pc' = [pc EXCEPT ![h] = "done"]
                   /\ loc' = [loc EXCEPT ![h] = Finish(@, "saved")]
  /\ UNCHANGED <<now, parameters, alerts, readings, alertLogs, events,
                 delivered, adminOps, msg, requests, call>>

\* ------------------------------------------------- AlertEngine.checkThresholds
\* The for loop of checkThresholds from position i, at time t, up to its next
\* await or its end: a rule whose parameter the reading lacks is skipped;
\* calling alert.shouldTrigger on an object that has no such method throws a
\* TypeError, which the catch around the whole loop takes ("throw"); a rule
\* that should trigger suspends the loop in triggerAlert ("trigger").
RECURSIVE evalLoop(_, _, _, _, _)
evalLoop(docs, telemetryData, i, t, invoked) ==
  IF i > Len(docs)
  THEN [kind |-> "end", idx |-> i, check |-> NoCheck, invoked |-> invoked]
  ELSE LET alert == docs[i]
           parameterName == alert.doc.parameterName
       IN  IF ~Present(telemetryData, parameterName)
           THEN evalLoop(docs, telemetryData, i + 1, t, invoked)
           ELSE IF ~alert.hasMethods
           THEN [kind |-> "throw", idx |-> i, check |-> NoCheck,
                 invoked |-> invoked \cup {[id |-> alert.id, t |-> t]}]
           ELSE LET check == shouldTrigger(alert.doc, telemetryData[parameterName], t)
                IN  IF check.shouldTrigger
                    THEN [kind |-> "trigger", idx |-> i, check |-> check,
                          invoked |-> invoked \cup {[id |-> alert.id, t |-> t]}]
                    ELSE evalLoop(docs, telemetryData, i + 1, t,
                                  invoked \cup {[id |-> alert.id, t |-> t]})

\* The handler's locals and position after the loop has run from position i.
\* checkThresholds returns normally when the loop ends and when its catch
\* has taken an exception; handleTelemetry then goes on to the fan-out.
LoopResult_noCatch(l, docs, i, t) ==
  LET r == evalLoop(docs, l.data, i, t, l.invoked)
  IN  IF r.kind = "trigger"
      THEN [pc |-> "logAlert",
            loc |-> [l EXCEPT !.alerts = docs, !.idx = r.idx, !.check = r.check,
                              !.invoked = r.invoked, !.log = 0]]
      ELSE IF r.kind = "throw"
      THEN [pc |-> "done",
            loc |-> Finish([l EXCEPT !.invoked = r.invoked], "error")]
      ELSE [pc |-> "emit",
            loc |-> [l EXCEPT !.alerts = <<>>, !.idx = 0, !.check = NoCheck,
                              !.invoked = r.invoked, !.log = 0,
                              !.engineReturned = TRUE]]

LoopResult(l, docs, i, t) ==
  LET r == evalLoop(docs, l.data, i, t, l.invoked)
  IN  IF r.kind = "trigger"
      THEN [pc |-> "logAlert",
            loc |-> [l EXCEPT !.alerts = docs, !.idx = r.idx, !.check = r.check,
                              !.invoked = r.invoked, !.log = 0]]
      ELSE [pc |-> "emit",
            loc |-> [l EXCEPT !.alerts = <<>>, !.idx = 0, !.check = NoCheck,
                              !.invoked = r.invoked, !.log = 0,
                              !.engineReturned = TRUE]]

\* triggerAlert has ended (normally, or in its catch): the loop goes on.
ResumeLoop(h) ==
  LET r == LoopResult(loc[h], loc[h].alerts, loc[h].idx + 1, now)
  IN  /\ pc' = [pc EXCEPT ![h] = r.pc]
      /\ loc' = [loc EXCEPT ![h] = r.loc]

\* AlertLog.logAlert: the document triggerAlert asks to store.
NewAlertLog(h, t) ==
  LET alert == loc[h].alerts[loc[h].idx]
  IN  [alertId |-> alert.id,
       deviceId |-> SerialOf(h),
       parameterName |-> alert.doc.parameterName,
       thresholdType |-> loc[h].check.thresholdType,
       thresholdValue |-> loc[h].check.threshold,
       actualValue |-> loc[h].data[alert.doc.parameterName],
       severity |-> alert.doc.severity,
       emailSent |-> FALSE,
       timestamp |-> t,
       by |-> h]

\* The rules of a device whose parameter a field map has a value for.
RulesWithValue(docs, telemetryData) ==
  { docs[i].id : i \in { j \in 1..Len(docs) :
                           Present(telemetryData, docs[j].doc.parameterName) } }

\* checkThresholds and triggerAlert, one step per await:
\*   getActiveAlerts  the answer of Alert.getActiveAlerts, and the loop
\*   logAlert         AlertLog.logAlert
\*   sendAlertEmail   emailService.sendAlertEmail (false when it fails)
\*   saveLog          alertLog.save() with the notification outcome
\*   recordTrigger    alert.recordTrigger(), then the 'alert' fan-out event
\* A failure inside triggerAlert is taken by triggerAlert's catch, a failure
\* of getActiveAlerts by checkThresholds' catch.
CheckThresholds(h) ==
  /\ pc[h] \in {"getActiveAlerts", "logAlert", "sendAlertEmail", "saveLog",
               "recordTrigger"}
  /\ \E ok \in BOOLEAN :
       CASE pc[h] = "getActiveAlerts" ->
              /\ IF ~ok
                 THEN /\ pc' = [pc EXCEPT ![h] = "emit"]
                      /\ loc' = [loc EXCEPT ![h].dbFailed = TRUE,
                                            ![h].engineReturned = TRUE]
                 ELSE LET docs == getActiveAlerts(SerialOf(h))
                          l == [loc[h] EXCEPT
                                  !.toEvaluate = RulesWithValue(docs, loc[h].data)]
                          r == IF Len(docs) = 0
                               THEN [pc |-> "emit",
                                     loc |-> [l EXCEPT !.engineReturned = TRUE]]
                               ELSE LoopResult(l, docs, 1, now)
                      IN  /\ pc' = [pc EXCEPT ![h] = r.pc]
                          /\ loc' = [loc EXCEPT ![h] = r.loc]
              /\ UNCHANGED <<alerts, alertLogs, events>>
         [] pc[h] = "logAlert" ->
              /\ IF ok /\ loc[h].data[loc[h].alerts[loc[h].idx].doc.parameterName].t = "num"
                 THEN /\ alertLogs' = Append(alertLogs, NewAlertLog(h, now))
                      /\ LET email == loc[h].alerts[loc[h].idx].doc.email
                         IN  pc' = [pc EXCEPT ![h] =
                                      IF email.enabled /\ email.recipients > 0
                                      THEN "sendAlertEmail" ELSE "recordTrigger"]
                      /\ loc' = [loc EXCEPT ![h].log = Len(alertLogs) + 1]
                 ELSE /\ alertLogs' = alertLogs
                      /\ ResumeLoop(h)
              /\ UNCHANGED <<alerts, events>>
         [] pc[h] = "sendAlertEmail" ->
              /\ pc' = [pc EXCEPT ![h] = IF ok THEN "saveLog" ELSE "recordTrigger"]
              /\ UNCHANGED <<alerts, alertLogs, events, loc>>
         [] pc[h] = "saveLog" ->
              /\ IF ok
                 THEN /\ alertLogs' = [alertLogs EXCEPT ![loc[h].log].emailSent = TRUE]
                      /\ pc' = [pc EXCEPT ![h] = "recordTrigger"]
                      /\ loc' = loc
                 ELSE /\ alertLogs' = alertLogs
                      /\ ResumeLoop(h)
              /\ UNCHANGED <<alerts, events>>
         [] pc[h] = "recordTrigger" ->
              LET alert == loc[h].alerts[loc[h].idx]
              IN  IF ok /\ alert.hasMethods
                  THEN /\ alerts' = [alerts EXCEPT
                                       ![alert.id].lastTriggered = {now},
                                       ![alert.id].triggerCount =
                                          alert.doc.triggerCount + 1]
                       /\ \E emitted \in BOOLEAN :
                            events' = IF GlobalIo /\ emitted
                                      THEN Append(events,
                                             [name |-> "alert",
                                              serialNumber |-> SerialOf(h),
                                              ref |-> loc[h].log, by |-> h])
                                      ELSE events
                       /\ alertLogs' = alertLogs
                       /\ ResumeLoop(h)
                  ELSE /\ UNCHANGED <<alerts, alertLogs, events>>
                       /\ ResumeLoop(h)
  /\ UNCHANGED <<now, devices, parameters, readings, delivered, adminOps, msg, requests, call>>

\* handleTelemetry after checkThresholds: the 'telemetry' fan-out event.
\* An emit that throws is taken by handleTelemetry's catch.
Emit(h) ==
  /\ pc[h] = "emit"
  /\ pc' = [pc EXCEPT ![h] = "done"]
  /\ \E emitted \in BOOLEAN :
       IF GlobalIo /\ emitted
       THEN /\ events' = Append(events,
                           [name |-> "telemetry", serialNumber |-> SerialOf(h),
                            ref |-> loc[h].telemetry, by |-> h])
            /\ loc' = [loc EXCEPT ![h] = Finish(@, "published")]
       ELSE /\ events' = events
            /\ loc' = [loc EXCEPT ![h] = Finish(@, "unpublished")]
  /\ UNCHANGED <<now, devices, parameters, alerts, readings, alertLogs,
                 delivered, adminOps, msg, requests, call>>

\* ------------------------------------------------------------------- Next
Next ==
  \/ Tick
  \/ \E s \in Serials, deviceType \in DeviceTypes : RegisterDevice(s, deviceType)
  \/ \E s \in Serials, enabled \in BOOLEAN : UpdateDevice(s, enabled)
  \/ \E m \in Messages : OnMessage(m.topic, m.message)
  \/ \E h \in Handlers : FindOne(h)
  \/ \E h \in Handlers : GetDeviceParameters(h)
  \/ \E h \in Handlers : StoreTelemetry(h)
  \/ \E h \in Handlers : UpdateLastSeen(h)
  \/ \E h \in Handlers : CheckThresholds(h)
  \/ \E h \in Handlers : Emit(h)

Spec == Init /\ [][Next]_vars

\* ------------------------------------------------------- inverted thresholds
\* The database with one rule whose two thresholds are enabled and inverted
\* (upper 1, lower 3: POST /api/alerts does not compare them), on a parameter
\* that is disabled, with e-mail notification and the cooldown set by PUT.
InitInverted ==
  /\ now = 0
  /\ devices = [s \in Serials |->
                  IF s = S10 THEN NewDevice("custom") ELSE NoDevice]
  /\ parameters = {FloatParameter(S10, "temperature", FALSE)}
  /\ alerts = <<NewAlert(S10, "temperature", Threshold({1}, TRUE),
                         Threshold({3}, TRUE), Email(TRUE, 1), MaxCooldown)>>
  /\ readings = <<>>
  /\ alertLogs = <<>>
  /\ events = <<>>
  /\ delivered = 0
  /\ adminOps = 0
  /\ pc = [h \in Handlers |-> "idle"]
  /\ msg = [h \in Handlers |-> NoMessage]
  /\ loc = [h \in Handlers |-> InitLoc]
  /\ requests = [r \in Requests |-> NoRequest]
  /\ call = NoCall

SpecInverted == InitInverted /\ [][Next]_vars

\* ------------------------------------------------ POST /api/alerts/:serialNumber
\* The unique index on (deviceId, parameterId) of the Alert collection: an
\* insert of a second document with the same pair fails with error 11000.
DuplicateKey_noIndex(collection, deviceId, parameterId) == FALSE

DuplicateKey(collection, deviceId, parameterId) ==
  \E i \in 1..Len(collection) :
    /\ collection[i].deviceId = deviceId
    /\ ParameterId(collection[i].deviceId, collection[i].parameterName) = parameterId

\* The parameter ids a request may name: the parameters of S10, and an id
\* that is no parameter of it.
ParameterIds ==
  {ParameterId(S10, "temperature"), ParameterId(S10, "humidity"),
   ParameterId(SWord, "temperature")}

\* POST /api/alerts/:serialNumber by an administrator, one step per await:
\*   idle      the request arrives
\*   findOne   Device.findOne: 404 when there is no device
\*   findById  Parameter.findById: 400 when there is no such parameter or it
\*             belongs to another device
\*   save      alert.save(): 409 on a duplicate key, else the rule is
\*             created (201)
\* Any other failure is answered 500.
PostAlert(r) ==
  /\ requests[r].pc # "done"
  /\ LET q == requests[r]
         Answer(response) ==
           requests' = [requests EXCEPT ![r].pc = "done",
                                        ![r].response = response]
     IN  \E ok \in BOOLEAN :
         CASE q.pc = "idle" ->
                /\ ok
                /\ \A p \in Requests : p < r => requests[p].pc # "idle"
                /\ \E serialNumber \in {S10, SWord}, parameterId \in ParameterIds :
                     requests' = [requests EXCEPT
                                    ![r].pc = "findOne",
                                    ![r].serialNumber = serialNumber,
                                    ![r].parameterId = parameterId]
                /\ alerts' = alerts
           [] q.pc = "findOne" ->
                /\ IF ~ok THEN Answer(500)
                   ELSE IF ~findOne(q.serialNumber).registered THEN Answer(404)
                   ELSE requests' = [requests EXCEPT ![r].pc = "findById"]
                /\ alerts' = alerts
           [] q.pc = "findById" ->
                /\ IF ~ok THEN Answer(500)
                   ELSE IF \A p \in parameters :
                             \/ ParameterId(p.deviceId, p.name) # q.parameterId
                             \/ p.deviceId # q.serialNumber
                   THEN Answer(400)
                   ELSE requests' = [requests EXCEPT ![r].pc = "save"]
                /\ alerts' = alerts
           [] q.pc = "save" ->
                IF ~ok THEN Answer(500) /\ alerts' = alerts
                ELSE IF DuplicateKey(alerts, q.serialNumber, q.parameterId)
                THEN Answer(409) /\ alerts' = alerts
                ELSE /\ alerts' = Append(alerts,
                                     NewAlert(q.serialNumber, q.parameterId.name,
                                              Threshold({1}, TRUE),
                                              Threshold({}, FALSE),
                                              Email(FALSE, 0), DefaultCooldown))
                     /\ Answer(201)
  /\ UNCHANGED <<now, devices, parameters, readings, alertLogs, events,
                 delivered, adminOps, pc, msg, loc, call>>

\* The database before the first request: device S10 with two parameters and
\* no rule, or with one rule on temperature.
InitAlerts ==
  /\ now = 0
  /\ devices = [s \in Serials |->
                  IF s = S10 THEN NewDevice("custom") ELSE NoDevice]
  /\ parameters = {FloatParameter(S10, "temperature", TRUE),
                   FloatParameter(S10, "humidity", TRUE)}
  /\ \E order \in {<<>>, <<"temperature">>} :
       alerts = [i \in 1..Len(order) |->
                   NewAlert(S10, order[i], Threshold({1}, TRUE),
                            Threshold({}, FALSE), Email(FALSE, 0),
                            DefaultCooldown)]
  /\ readings = <<>>
  /\ alertLogs = <<>>
  /\ events = <<>>
  /\ delivered = 0
  /\ adminOps = 0
  /\ pc = [h \in Handlers |-> "idle"]
  /\ msg = [h \in Handlers |-> NoMessage]
  /\ loc = [h \in Handlers |-> InitLoc]
  /\ requests = [r \in Requests |-> NoRequest]
  /\ call = NoCall

NextAlerts == \E r \in Requests : PostAlert(r)

SpecAlerts == InitAlerts /\ [][NextAlerts]_vars

\* ------------------------------------------------------ validateValue
\* The parameters and the values validateValue is called with.
ValidateParams ==
  [dataType : {"boolean", "integer", "unsigned_integer", "float", "sfloat",
               "string"},
   minValue : {{}, {0}, {10}},
   maxValue : {{}, {3}, {100}}]

ValidateValues ==
  {Num(0 - 5), Num(0), Num(5), Num(50), Num(101), Half(5), Half(0 - 1),
   BoolV(TRUE), BoolV(FALSE), StrV, NumStr(50), NumStr(0 - 5), NullV}

\* A call param.validateValue(value) on a parameter document.
ValidateValue ==
  /\ call.fn = "validateValue"
  /\ call.result = "pending"
  /\ call' = [call EXCEPT !.result = IF validateValue(call.param, call.value)
                                      THEN "valid" ELSE "invalid"]
  /\ UNCHANGED <<now, devices, parameters, alerts, readings, alertLogs, events,
                 delivered, adminOps, pc, msg, loc, requests>>

InitValidate ==
  /\ now = 0
  /\ devices = [s \in Serials |-> NoDevice]
  /\ parameters = {}
  /\ alerts = <<>>
  /\ readings = <<>>
  /\ alertLogs = <<>>
  /\ events = <<>>
  /\ delivered = 0
  /\ adminOps = 0
  /\ pc = [h \in Handlers |-> "idle"]
  /\ msg = [h \in Handlers |-> NoMessage]
  /\ loc = [h \in Handlers |-> InitLoc]
  /\ requests = [r \in Requests |-> NoRequest]
  /\ \E param \in ValidateParams, value \in ValidateValues :
       call = [fn |-> "validateValue", param |-> param, value |-> value,
               result |-> "pending"]

NextValidate == ValidateValue

SpecValidate == InitValidate /\ [][NextValidate]_vars

\* ------------------------------------------------- getAggregatedParameter
\* Time in this part is counted in minutes.  The intervals of intervalMap.
intervalMap ==
  [i \in {"5m", "15m", "1h", "6h", "1d"} |->
     CASE i = "5m" -> 5 [] i = "15m" -> 15 [] i = "1h" -> 60
       [] i = "6h" -> 360 [] i = "1d" -> 1440]

\* intervalMap[interval] || intervalMap['1h']
IntervalMs(interval) ==
  IF interval \in DOMAIN intervalMap THEN intervalMap[interval]
  ELSE intervalMap["1h"]

\* The first $match: the device, and the bounds of the range that were given.
MatchStage(doc, deviceId, startTime, endTime) ==
  /\ doc.deviceId = deviceId
  /\ \A t \in startTime : doc.timestamp.v >= t
  /\ \A t \in endTime : doc.timestamp.v <= t

\* $addFields intervalBucket: timestamp - (timestamp mod intervalMs)
IntervalBucket_roundedUp(doc, intervalMs) ==
  doc.timestamp.v - (doc.timestamp.v % intervalMs) + intervalMs

IntervalBucket(doc, intervalMs) ==
  doc.timestamp.v - (doc.timestamp.v % intervalMs)

\* The second $match: parameterValue { $exists: true, $ne: null }
HasParameterValue(doc, parameterName) == Present(doc.data, parameterName)

\* $sum, $min and $max of the parameter over the documents at the indices I.
RECURSIVE SumOf(_, _, _)
SumOf(docs, parameterName, I) ==
  IF I = {} THEN 0
  ELSE LET i == CHOOSE j \in I : TRUE
       IN  docs[i].data[parameterName].v + SumOf(docs, parameterName, I \ {i})

MinOf(docs, parameterName, I) ==
  CHOOSE v \in {docs[i].data[parameterName].v : i \in I} :
    \A i \in I : v <= docs[i].data[parameterName].v

MaxOf(docs, parameterName, I) ==
  CHOOSE v \in {docs[i].data[parameterName].v : i \in I} :
    \A i \in I : v >= docs[i].data[parameterName].v

\* $sort { _id: 1 }: the numbers of S in ascending order.
RECURSIVE Ascending(_)
Ascending(S) ==
  IF S = {} THEN <<>>
  ELSE LET least == CHOOSE x \in S : \A y \in S : x <= y
       IN  <<least>> \o Ascending(S \ {least})

\* Telemetry.getAggregatedParameter: the pipeline over the collection docs,
\* and the map of its results.  avg is the quotient of the pair <<sum, count>>.
getAggregatedParameter(docs, deviceId, parameterName, startTime, endTime, interval) ==
  LET intervalMs == IntervalMs(interval)
      matched == {i \in 1..Len(docs) :
                    /\ MatchStage(docs[i], deviceId, startTime, endTime)
                    /\ HasParameterValue(docs[i], parameterName)}
      ids == Ascending({IntervalBucket(docs[i], intervalMs) : i \in matched})
      group(id) == {i \in matched : IntervalBucket(docs[i], intervalMs) = id}
  IN  [n \in 1..Len(ids) |->
         [timestamp |-> ids[n],
          avg |-> <<SumOf(docs, parameterName, group(ids[n])),
                    Cardinality(group(ids[n]))>>,
          min |-> MinOf(docs, parameterName, group(ids[n])),
          max |-> MaxOf(docs, parameterName, group(ids[n])),
          count |-> Cardinality(group(ids[n]))]]

\* A device identifier other than the one asked about.
OtherDeviceId == <<"0", "9", "8", "7", "6", "5", "4", "3", "2", "1">>

\* Stored readings: documents as storeTelemetry writes them, of two devices,
\* whose data has a number, null or nothing for 'temperature'.
StoredReadings ==
  [deviceId : {S10, OtherDeviceId},
   timestamp : {Num(5), Num(55), Num(65)},
   data : {[temperature |-> Num(1)], [temperature |-> Num(3)],
           [temperature |-> NullV], [humidity |-> Num(1)]}]

\* The arguments of the calls: no bound or a bound, a named interval or a
\* name intervalMap does not have.
AggregateStartTimes == {{}, {55}}
AggregateEndTimes == {{}, {60}}
AggregateIntervals == {"5m", "1h", "1w"}

\* A call Telemetry.getAggregatedParameter(deviceId, 'temperature', ...).
GetAggregatedParameter ==
  /\ call.fn = "getAggregatedParameter"
  /\ ~call.returned
  /\ call' = [call EXCEPT
                !.returned = TRUE,
                !.result = getAggregatedParameter(readings, call.deviceId,
                             call.parameterName, call.startTime, call.endTime,
                             call.interval)]
  /\ UNCHANGED <<now, devices, parameters, alerts, readings, alertLogs, events,
                 delivered, adminOps, pc, msg, loc, requests>>

InitAggregate ==
  /\ now = 0
  /\ devices = [s \in Serials |-> NoDevice]
  /\ parameters = {}
  /\ alerts = <<>>
  /\ alertLogs = <<>>
  /\ events = <<>>
  /\ delivered = 0
  /\ adminOps = 0
  /\ pc = [h \in Handlers |-> "idle"]
  /\ msg = [h \in Handlers |-> NoMessage]
  /\ loc = [h \in Handlers |-> InitLoc]
  /\ requests = [r \in Requests |-> NoRequest]
  /\ readings \in [1..MaxReadings -> StoredReadings]
  /\ \E startTime \in AggregateStartTimes, endTime \in AggregateEndTimes,
        interval \in AggregateIntervals :
       call = [fn |-> "getAggregatedParameter", deviceId |-> S10,
               parameterName |-> "temperature", startTime |-> startTime,
               endTime |-> endTime, interval |-> interval,
               returned |-> FALSE, result |-> <<>>]

NextAggregate == GetAggregatedParameter

SpecAggregate == InitAggregate /\ [][NextAggregate]_vars

\* ------------------------------------------- every message type of a device
\* The messages of every topic the client subscribes to, with bodies that are
\* objects and bodies that are not.
DeviceMessages ==
  {[topic |-> TelemetryTopic(S10), message |-> m] :
     m \in {Object([temperature |-> Num(2)]), NonObject("notjson"),
            NonObject("null"), NonObject("number"), NonObject("string")}}
  \cup {[topic |-> StatusTopic(S10), message |-> m] :
          m \in {StatusObject("undefined"), StatusObject("error"),
                 StatusObject("maintenance"), StatusObject("bogus"),
                 NonObject("null"), NonObject("number")}}
  \cup {[topic |-> StatusTopic(s), message |-> StatusObject("undefined")] :
          s \in {SWord, SBad}}
  \cup {[topic |-> RegisterTopic, message |-> m] :
          m \in {RegistrationObject(S10), RegistrationObject(SWord),
                 RegistrationObject(SBad), NonObject("null")}}

\* The database before the first message: empty, or device S10 registered
\* without parameters and rules, never seen (offline) or seen before (online).
InitMessages ==
  /\ now = 0
  /\ \E d \in {NoDevice, NewDevice("custom"),
                [NewDevice("custom") EXCEPT !.status = "online",
                                            !.lastSeen = {0}]} :
       devices = [s \in Serials |-> IF s = S10 THEN d ELSE NoDevice]
  /\ parameters = {}
  /\ alerts = <<>>
  /\ readings = <<>>
  /\ alertLogs = <<>>
  /\ events = <<>>
  /\ delivered = 0
  /\ adminOps = 0
  /\ pc = [h \in Handlers |-> "idle"]
  /\ msg = [h \in Handlers |-> NoMessage]
  /\ loc = [h \in Handlers |-> InitLoc]
  /\ requests = [r \in Requests |-> NoRequest]
  /\ call = NoCall

NextMessages ==
  \/ Tick
  \/ \E s \in Serials, deviceType \in DeviceTypes : RegisterDevice(s, deviceType)
  \/ \E m \in DeviceMessages : OnMessage(m.topic, m.message)
  \/ \E h \in Handlers : FindOne(h)
  \/ \E h \in Handlers : GetDeviceParameters(h)
  \/ \E h \in Handlers : StoreTelemetry(h)
  \/ \E h \in Handlers : UpdateLastSeen(h)
  \/ \E h \in Handlers : CheckThresholds(h)
  \/ \E h \in Handlers : Emit(h)
  \/ \E h \in Handlers : HandleStatus(h)
  \/ \E h \in Handlers : HandleRegistration(h)

SpecMessages == InitMessages /\ [][NextMessages]_vars

\* ----------------------------------------------------- a disabled device
\* The database before the first message: device S10 registered and then
\* disabled by PUT /api/devices/:serialNumber, never seen.  The administrator
\* may enable it again while messages arrive.
InitDisabled ==
  /\ now = 0
  /\ devices = [s \in Serials |->
                  IF s = S10 THEN [NewDevice("custom") EXCEPT !.enabled = FALSE]
                  ELSE NoDevice]
  /\ parameters = {}
  /\ alerts = <<>>
  /\ readings = <<>>
  /\ alertLogs = <<>>
  /\ events = <<>>
  /\ delivered = 0
  /\ adminOps = 0
  /\ pc = [h \in Handlers |-> "idle"]
  /\ msg = [h \in Handlers |-> NoMessage]
  /\ loc = [h \in Handlers |-> InitLoc]
  /\ requests = [r \in Requests |-> NoRequest]
  /\ call = NoCall

NextDisabled ==
  \/ Tick
  \/ \E s \in Serials, enabled \in BOOLEAN : UpdateDevice(s, enabled)
  \/ \E m \in DeviceMessages : OnMessage(m.topic, m.message)
  \/ \E h \in Handlers : FindOne(h)
  \/ \E h \in Handlers : GetDeviceParameters(h)
  \/ \E h \in Handlers : StoreTelemetry(h)
  \/ \E h \in Handlers : UpdateLastSeen(h)
  \/ \E h \in Handlers : CheckThresholds(h)
  \/ \E h \in Handlers : Emit(h)
  \/ \E h \in Handlers : HandleStatus(h)
  \/ \E h \in Handlers : HandleRegistration(h)

SpecDisabled == InitDisabled /\ [][NextDisabled]_vars

\* ------------------------------------------- the namespaced client (part_004)
\* BASE_TOPIC is "diya/iot-dashboard": the telemetry topic of a device as
\* topic.split('/') sees it.
NsTelemetryTopic(serialNumber) ==
  <<"diya", "iot-dashboard", "devices", serialNumber, "telemetry">>

NsRegisterTopic == <<"diya", "iot-dashboard", "devices", "register">>

\* The identifier `topic` in handleTelemetry of the namespaced client
\* (metadata: { source: 'mqtt', mqttTopic: topic }): it is a parameter of the
\* listener, not of handleTelemetry, and the module binds no such name, so
\* evaluating it throws a ReferenceError.
TopicInScope == FALSE

\* client.on('message') of the namespaced client, for a message that is not
\* on the registration topic: JSON.parse in a try of its own (a body that is
\* not JSON is ignored), then the switch on topicParts[4]; handleTelemetry up
\* to its first await.  Status messages are not followed further here.
OnMessageNs(topic, message) ==
  /\ delivered < MaxMsgs
  /\ LET h == delivered + 1
         serialNumber == Part(topic, 4)
         messageType == Part(topic, 5)
         Ends(outcome) ==
           /\ pc' = [pc EXCEPT ![h] = "done"]
           /\ loc' = [loc EXCEPT ![h] = Finish(@, outcome)]
         Awaits(position) ==
           /\ pc' = [pc EXCEPT ![h] = position]
           /\ loc' = [loc EXCEPT ![h].overlaps =
                        {g \in Handlers : pc[g] \notin {"idle", "done"}}]
     IN  /\ pc[h] = "idle"
         /\ topic # NsRegisterTopic
         /\ delivered' = h
         /\ msg' = [msg EXCEPT ![h] = [topic |-> topic] @@ message]
         /\ IF message.body = "notjson" THEN Ends("dropped")
            ELSE IF messageType # "telemetry" THEN Ends("dropped")
            ELSE IF ~validateSerialNumber(serialNumber) THEN Ends("dropped")
            ELSE Awaits("nsFindOne")
  /\ UNCHANGED <<now, devices, parameters, alerts, readings, alertLogs, events,
                 adminOps, requests, call>>

\* handleTelemetry of the namespaced client, from the answer of Device.findOne
\* to the await of Parameter.getDeviceParameters.
FindOneNs(h) ==
  /\ pc[h] = "nsFindOne"
  /\ \E ok \in BOOLEAN :
       IF ~ok THEN Caught(h, TRUE)
       ELSE LET device == findOne(SerialOf(h))
                telemetryData == RestWithoutTimestamp(msg[h].payload)
            IN  IF ~device.registered \/ ~device.enabled
                THEN /\ pc' = [pc EXCEPT ![h] = "done"]
                     /\ loc' = [loc EXCEPT ![h] = Finish(@, "dropped")]
                ELSE IF msg[h].body = "null"
                THEN Caught(h, FALSE)
                ELSE IF DOMAIN telemetryData = {}
                THEN /\ pc' = [pc EXCEPT ![h] = "done"]
                     /\ loc' = [loc EXCEPT ![h] = Finish(@, "dropped")]
                ELSE /\ pc' = [pc EXCEPT ![h] = "nsGetDeviceParameters"]
                     /\ loc' = [loc EXCEPT ![h].data = telemetryData,
                                           ![h].deviceStatus = device.status,
                                           ![h].accepted = TRUE]
  /\ UNCHANGED <<now, devices, parameters, alerts, readings, alertLogs, events,
                 delivered, adminOps, msg, requests, call>>

\* The validation loop of the namespaced client: `if (value !== undefined)
\* param.validateValue(value)`, also for a value that is null.
ValidationThrowsNs(params, telemetryData) ==
  \E param \in params :
    /\ param.doc.name \in DOMAIN telemetryData
    /\ ~param.hasMethods

\* handleTelemetry of the namespaced client, from the answer of
\* getDeviceParameters on: the validation loop, then the argument of
\* Telemetry.storeTelemetry, whose evaluation throws before the call is made.
GetDeviceParametersNs(h) ==
  /\ pc[h] = "nsGetDeviceParameters"
  /\ \E ok \in BOOLEAN :
       IF ~ok THEN Caught(h, TRUE)
       ELSE IF ValidationThrowsNs(getDeviceParameters(SerialOf(h)), loc[h].data)
       THEN Caught(h, FALSE)
       ELSE IF ~TopicInScope
       THEN Caught(h, FALSE)
       ELSE /\ pc' = [pc EXCEPT ![h] = "storeTelemetry"]
            /\ loc' = loc
  /\ UNCHANGED <<now, devices, parameters, alerts, readings, alertLogs, events,
                 delivered, adminOps, msg, requests, call>>

\* The telemetry messages of the namespaced topics, with bodies that are
\* objects, null and not JSON.
NsMessages ==
  {[topic |-> NsTelemetryTopic(S10), message |-> m] :
     m \in {Object([temperature |-> Num(2)]), Object([timestamp |-> TsVal]),
            NonObject("notjson"), NonObject("null")}}
  \cup {[topic |-> NsTelemetryTopic(s), message |-> Object([temperature |-> Num(2)])] :
          s \in {SWord, SBad}}

NextNamespaced ==
  \/ Tick
  \/ \E s \in Serials, deviceType \in DeviceTypes : RegisterDevice(s, deviceType)
  \/ \E m \in NsMessages : OnMessageNs(m.topic, m.message)
  \/ \E h \in Handlers : FindOneNs(h)
  \/ \E h \in Handlers : GetDeviceParametersNs(h)

SpecNamespaced == InitMessages /\ [][NextNamespaced]_vars

\* ================================================================ claims
\* The reading a handler stored, if any.
StoredBy(h) == {i \in 1..Len(readings) : readings[i].by = h}

\* C1: a telemetry message that passed the drop checks (registered, enabled
\* device, at least one non-timestamp field), met no persistence failure and
\* has a serial number the reading's schema accepts, is stored as one
\* reading: per-parameter validation never prevents the storage.
C1_ValidationNeverBlocksStorage ==
  \A h \in Handlers :
    ( /\ pc[h] = "done"
      /\ loc[h].accepted
      /\ ~loc[h].dbFailed
      /\ telemetrySerialValidator(SerialOf(h)) )
    => Cardinality(StoredBy(h)) = 1

\* C2: a step of the handler of a telemetry message whose serial number is not
\* that of a registered device changes neither the devices nor the readings.
C2_UnregisteredCreatesNothing ==
  [][ \A h \in Handlers :
        ( /\ pc'[h] # pc[h]
          /\ ~devices[msg'[h].topic[3]].registered )
        => /\ devices' = devices
           /\ readings' = readings ]_vars

\* C2 witness: the message of an unregistered, well-formed serial number has
\* been handled to its end.
C2_Witness ==
  \E h \in Handlers :
    /\ pc[h] = "done"
    /\ validateSerialNumber(SerialOf(h))
    /\ ~devices[SerialOf(h)].registered
    /\ DOMAIN RestWithoutTimestamp(msg[h].payload) # {}
    /\ loc[h].outcome = "dropped"

\* C3: a serial number accepted at registration is accepted at every stage of
\* ingestion: the reading a handler is about to persist for a registered,
\* enabled device passes the validators of the reading's schema.
C3_SameSerialFormatAtPersistence ==
  \A h \in Handlers :
    pc[h] = "storeTelemetry" => TelemetryValid(NewTelemetry(h, now))

\* C4: a stored reading's data map is the payload of its message without the
\* timestamp field, its quality is 'good' and its metadata name mqtt and the
\* topic the message arrived on.
C4_StoredReadingEqualsPayload ==
  \A i \in 1..Len(readings) :
    LET r == readings[i]
        m == msg[r.by]
    IN  /\ DOMAIN r.data = (DOMAIN m.payload) \ {"timestamp"}
        /\ \A k \in DOMAIN r.data : r.data[k] = m.payload[k]
        /\ r.quality = "good"
        /\ r.metadata.source = "mqtt"
        /\ r.metadata.mqttTopic = m.topic

\* C4 witness: a reading of a payload with a timestamp and two fields is stored.
C4_Witness ==
  \E i \in 1..Len(readings) :
    /\ "timestamp" \in DOMAIN msg[readings[i].by].payload
    /\ DOMAIN readings[i].data = {"temperature", "humidity"}

\* ------------------------------------------------------ alert evaluation
\* The Alert Logs a handler wrote for a rule.
LogsBy(h, a) ==
  {i \in 1..Len(alertLogs) : alertLogs[i].by = h /\ alertLogs[i].alertId = a}

\* The rules on which handler h invoked shouldTrigger.
InvokedIds(h) == {x.id : x \in loc[h].invoked}

\* The reading of handler h crosses an enabled threshold of rule a.
Crosses(h, a) ==
  LET rule == alerts[a]
      data == RestWithoutTimestamp(msg[h].payload)
  IN  /\ Present(data, rule.parameterName)
      /\ \/ /\ rule.upperThreshold.enabled
            /\ \E u \in rule.upperThreshold.value : JsGt(data[rule.parameterName], u)
         \/ /\ rule.lowerThreshold.enabled
            /\ \E l \in rule.lowerThreshold.value : JsLt(data[rule.parameterName], l)

CrossesUpper(h, a) ==
  LET rule == alerts[a]
      data == RestWithoutTimestamp(msg[h].payload)
  IN  /\ Present(data, rule.parameterName)
      /\ rule.upperThreshold.enabled
      /\ \E u \in rule.upperThreshold.value : JsGt(data[rule.parameterName], u)

RuleIds == 1..Len(alerts)

C6_UpperCrossingLogsOnce ==
  \A h \in Handlers : \A a \in RuleIds :
    ( /\ loc[h].engineReturned
      /\ ~loc[h].dbFailed
      /\ a \in loc[h].toEvaluate
      /\ CrossesUpper(h, a)
      /\ \A g \in Handlers \ {h} : a \notin InvokedIds(g) )
    => /\ Cardinality(LogsBy(h, a)) = 1
       /\ \A i \in LogsBy(h, a) :
            /\ alertLogs[i].thresholdType = "upper"
            /\ alertLogs[i].thresholdValue \in alerts[a].upperThreshold.value
            /\ alertLogs[i].actualValue = msg[h].payload[alerts[a].parameterName]

\* C7: the first reading that crosses a rule's threshold fires the rule at
\* time t0 (C6); a second crossing reading evaluated at time t, after the
\* first one was handled, creates an Alert Log iff t - t0 >= cooldownPeriod.
C7_FiresAgainAfterCooldown ==
  \A a \in RuleIds : \A x \in loc[1].invoked, y \in loc[2].invoked :
    ( /\ x.id = a /\ y.id = a
      /\ 1 \notin loc[2].overlaps
      /\ loc[1].engineReturned /\ loc[2].engineReturned
      /\ ~loc[1].dbFailed /\ ~loc[2].dbFailed
      /\ Crosses(1, a) /\ Crosses(2, a) )
    => IF y.t - x.t >= alerts[a].cooldownPeriod
       THEN Cardinality(LogsBy(2, a)) = 1
       ELSE Cardinality(LogsBy(2, a)) = 0

C9_EveryRuleEvaluated ==
  \A h \in Handlers :
    loc[h].engineReturned => InvokedIds(h) = loc[h].toEvaluate

\* The positions of a handler inside checkThresholds.
EnginePcs ==
  {"getActiveAlerts", "logAlert", "sendAlertEmail", "saveLog", "recordTrigger"}

\* C10: checkThresholds never throws to its caller: a handler leaves
\* checkThresholds only by its normal return, to the statement that publishes
\* the telemetry fan-out event of the reading it stored.
C10_CheckThresholdsNeverThrows ==
  [][ \A h \in Handlers :
        (pc[h] \in EnginePcs /\ pc'[h] \notin EnginePcs)
        => /\ pc'[h] = "emit"
           /\ loc'[h].engineReturned
           /\ StoredBy(h) # {} ]_vars

\* C10 witness: a handler is at the fan-out after an exception was raised in
\* the evaluation of a rule, another after the rule store failed.
C10_Witness ==
  /\ \E h \in Handlers : pc[h] = "emit" /\ loc[h].invoked # {}
  /\ \E h \in Handlers : pc[h] = "emit" /\ loc[h].dbFailed

\* ------------------------------------------------------ rejected messages
\* What a handler's step may change of the database and the fan-out.
Stores == <<devices, parameters, alerts, readings, alertLogs, events>>

\* The events handler h has published.
EventsBy(h) == {i \in 1..Len(events) : events[i].by = h}

\* C11: a telemetry message whose serial number is malformed ends its handler
\* at once, and one whose device is unknown or disabled, or whose payload has
\* no field besides timestamp, ends it at the answer of Device.findOne; the
\* handler's step changes no stored state, and the handler has stored no
\* reading, evaluated no rule, written no Alert Log and published no event.
C11_RejectedTelemetryChangesNothing ==
  [][ \A h \in Handlers :
        ( /\ pc'[h] # pc[h]
          /\ Part(msg'[h].topic, 4) = "telemetry"
          /\ msg'[h].body = "object"
          /\ \/ /\ pc[h] = "idle"
                /\ ~validateSerialNumber(msg'[h].topic[3])
             \/ /\ pc[h] = "findOne"
                /\ \/ ~devices[msg[h].topic[3]].registered
                   \/ ~devices[msg[h].topic[3]].enabled
                   \/ (DOMAIN msg[h].payload) \ {"timestamp"} = {} )
        => /\ pc'[h] = "done"
           /\ Stores' = Stores
           /\ {i \in 1..Len(readings') : readings'[i].by = h} = {}
           /\ {i \in 1..Len(alertLogs') : alertLogs'[i].by = h} = {}
           /\ {i \in 1..Len(events') : events'[i].by = h} = {}
           /\ loc'[h].invoked = {} ]_vars

\* C11 witness: a handler has dropped a message with data fields for a
\* registered device that is disabled, another one a message with a malformed
\* serial number.
C11_Witness ==
  \E g, h \in Handlers :
    /\ pc[g] = "done" /\ loc[g].outcome = "dropped"
    /\ devices[S10].registered /\ ~devices[S10].enabled
    /\ msg[g].topic = TelemetryTopic(S10)
    /\ DOMAIN RestWithoutTimestamp(msg[g].payload) # {}
    /\ pc[h] = "done" /\ loc[h].outcome = "dropped"
    /\ msg[h].topic = TelemetryTopic(SBad)

\* C11 witness, the other two reasons: handlers have dropped a message for an
\* unknown device and a message with no field besides timestamp.
C11_WitnessUnknownAndEmpty ==
  \E g, h \in Handlers :
    /\ pc[g] = "done" /\ loc[g].outcome = "dropped"
    /\ msg[g].topic = TelemetryTopic(SWord) /\ ~devices[SWord].registered
    /\ pc[h] = "done" /\ loc[h].outcome = "dropped"
    /\ msg[h].topic = TelemetryTopic(S10)
    /\ devices[S10].registered /\ devices[S10].enabled
    /\ DOMAIN msg[h].payload = {"timestamp"}

\* ------------------------------------------------------- device status
\* Handler h was started while no handler ran, and none has run since.
RanAlone(h) ==
  /\ loc[h].overlaps = {}
  /\ \A g \in Handlers : h \notin loc[g].overlaps
  /\ \A g \in Handlers \ {h} : pc[g] \in {"idle", "done"}

\* C12: when the handler of a telemetry message has stored the reading and
\* its updateLastSeen has completed, the device's lastSeen is the current
\* time and, whatever status the handler found (offline, online, error or
\* maintenance), the device is 'online'.  Under overlapping handlers the
\* status is 'online' whenever the handler found another status.
C12_StoredTelemetrySetsOnline ==
  [][ \A h \in Handlers :
        (pc[h] = "updateLastSeen" /\ pc'[h] = "getActiveAlerts")
        => /\ Cardinality(StoredBy(h)) = 1
           /\ devices'[SerialOf(h)].lastSeen = {now}
           /\ \/ devices'[SerialOf(h)].status = "online"
              \/ loc[h].deviceStatus = "online"
           /\ RanAlone(h) => devices'[SerialOf(h)].status = "online" ]_vars

\* C12 witness: a status message has left the device 'error'; the telemetry
\* message handled after it is stored and the device is 'online'.
C12_Witness ==
  /\ msg[1].topic = StatusTopic(S10) /\ msg[1].status = "error"
  /\ loc[1].outcome = "published"
  /\ msg[2].topic = TelemetryTopic(S10)
  /\ loc[2].overlaps = {} /\ pc[2] = "getActiveAlerts"
  /\ Cardinality(StoredBy(2)) = 1
  /\ devices[S10].status = "online" /\ devices[S10].lastSeen = {now}

\* C13: no message of a device leaves a device in 'error' or 'maintenance'.
\* No administrative action of the model sets a status, so in every reachable
\* state every device is 'offline' or 'online'.
C13_MessagesNeverSetErrorOrMaintenance ==
  \A s \in Serials : devices[s].status \notin {"error", "maintenance"}

\* The handler of a status message with an object body whose status field is
\* absent or a value of the enum.
ValidStatusMessage(h) ==
  /\ Part(msg[h].topic, 4) = "status"
  /\ msg[h].body = "object"
  /\ msg[h].status \in StatusEnum \cup {"undefined"}

\* payload.status, or 'online' when the field is absent.
StatusOf(h) == IF msg[h].status = "undefined" THEN "online" ELSE msg[h].status

C15_ProbesNeverAddDevices ==
  [][ /\ \A s \in Serials :
           devices'[s].registered # devices[s].registered
           => adminOps' = adminOps + 1
      /\ \A h \in Handlers :
           /\ (pc[h] = "registrationFindOne" /\ pc'[h] # pc[h])
              => /\ Stores' = Stores
                 /\ IF devices[SerialOf(h)].registered
                    THEN pc'[h] = "done" => loc'[h].dbFailed
                    ELSE /\ pc'[h] = "done"
                         /\ loc'[h].dbFailed \/ loc'[h].outcome = "dropped"
           /\ (pc[h] = "registrationSave" /\ pc'[h] = "done" /\ ~loc'[h].dbFailed)
              => /\ devices'[SerialOf(h)].lastSeen = {loc[h].lastSeen}
                 /\ \/ devices'[SerialOf(h)].status = "online"
                    \/ loc[h].deviceStatus = "online"
                 /\ RanAlone(h) => devices'[SerialOf(h)].status = "online" ]_vars

\* C15 witness: a probe for an unknown serial number has been dropped and the
\* serial number is still unregistered; a probe for a known device that was
\* offline has been saved and the device is 'online'.
C15_Witness ==
  \E g, h \in Handlers :
    /\ pc[g] = "done" /\ msg[g].topic = RegisterTopic
    /\ msg[g].serialNumber = SWord /\ loc[g].outcome = "dropped"
    /\ ~devices[SWord].registered
    /\ pc[h] = "done" /\ msg[h].topic = RegisterTopic
    /\ msg[h].serialNumber = S10 /\ loc[h].outcome = "saved"
    /\ devices[S10].status = "online" /\ devices[S10].lastSeen # {}

\* ------------------------------------------------------------ bad messages
\* A bad message: its body is not a JSON object, or its handler failed.
BadMessage(h) ==
  /\ pc[h] = "done"
  /\ msg[h].body # "object" \/ loc[h].outcome = "error"

\* Handler v was started after a bad message had been handled to its end, ran
\* while no other handler ran, and met no persistence failure.
AfterBadMessage(v) ==
  /\ \E b \in Handlers : b < v /\ BadMessage(b)
  /\ loc[v].overlaps = {}
  /\ \A g \in Handlers : v \notin loc[g].overlaps
  /\ \A g \in Handlers \ {v} : pc[g] \in {"idle", "done"}

\* C16: no exception leaves the message listener, whatever the body of the
\* message; and a valid message handled after a bad one has its effects: a
\* telemetry message for a registered, enabled device is not dropped, its
\* reading is stored and the device set 'online'; a status message sets the
\* status it carries and is published; a registration probe sets 'online'.
C16_BadMessageNeverAborts ==
  /\ [](\A h \in Handlers : loc[h].outcome # "uncaught")
  /\ [][ \A v \in Handlers :
           (AfterBadMessage(v) /\ msg[v].body = "object" /\ ~loc'[v].dbFailed) =>
             /\ ( /\ pc[v] = "findOne" /\ pc'[v] = "done"
                  /\ devices[SerialOf(v)].registered
                  /\ devices[SerialOf(v)].enabled )
                => (DOMAIN msg[v].payload) \ {"timestamp"} = {}
             /\ (pc[v] = "updateLastSeen" /\ pc'[v] # pc[v])
                => /\ Cardinality(StoredBy(v)) = 1
                   /\ devices'[SerialOf(v)].status = "online"
                   /\ devices'[SerialOf(v)].lastSeen = {now}
             /\ ( /\ pc[v] = "statusFindOne" /\ pc'[v] = "done"
                  /\ ValidStatusMessage(v) )
                => ~devices[SerialOf(v)].registered
             /\ ( /\ pc[v] = "statusSave" /\ pc'[v] # pc[v]
                  /\ ValidStatusMessage(v) )
                => /\ devices'[SerialOf(v)].status = StatusOf(v)
                   /\ devices'[SerialOf(v)].lastSeen = {loc[v].lastSeen}
                   /\ loc'[v].outcome \in {"published", "unpublished"}
             /\ (pc[v] = "registrationFindOne" /\ pc'[v] = "done")
                => ~devices[SerialOf(v)].registered
             /\ (pc[v] = "registrationSave" /\ pc'[v] # pc[v])
                => /\ devices'[SerialOf(v)].status = "online"
                   /\ devices'[SerialOf(v)].lastSeen = {loc[v].lastSeen} ]_vars

\* C16 witness: a message that is not JSON has ended in the listener's catch,
\* and the status message delivered after it has been saved and published.
C16_Witness ==
  /\ pc[1] = "done" /\ msg[1].body = "notjson" /\ loc[1].outcome = "error"
  /\ pc[2] = "done" /\ ValidStatusMessage(2)
  /\ msg[2].status = "maintenance" /\ loc[2].outcome = "published"
  /\ devices[S10].status = "maintenance"

\* C16 witness, a failing handler: a telemetry message whose payload is null
\* has ended in handleTelemetry's catch, and the telemetry message delivered
\* after it has been stored and published.
C16_WitnessNullPayload ==
  /\ pc[1] = "done" /\ msg[1].body = "null" /\ loc[1].outcome = "error"
  /\ msg[1].topic = TelemetryTopic(S10)
  /\ pc[2] = "done" /\ msg[2].body = "object" /\ loc[2].outcome = "published"
  /\ Cardinality(StoredBy(2)) = 1

\* ------------------------------------------------------------- redelivery
\* C17: when the same telemetry message with data fields has been delivered
\* twice to a device that is registered and enabled all along, and neither
\* handler met a persistence failure, each delivery has stored one reading
\* and the two readings have equal field maps.
C17_RedeliveryStoresAgain ==
  ( /\ pc[1] = "done" /\ pc[2] = "done"
    /\ msg[1] = msg[2]
    /\ msg[1].body = "object"
    /\ Part(msg[1].topic, 4) = "telemetry"
    /\ telemetrySerialValidator(SerialOf(1))
    /\ devices[SerialOf(1)].registered /\ devices[SerialOf(1)].enabled
    /\ adminOps = 0
    /\ (DOMAIN msg[1].payload) \ {"timestamp"} # {}
    /\ ~loc[1].dbFailed /\ ~loc[2].dbFailed )
  => /\ Cardinality(StoredBy(1)) = 1
     /\ Cardinality(StoredBy(2)) = 1
     /\ \A i \in StoredBy(1), j \in StoredBy(2) :
          readings[i].data = readings[j].data

\* C17, on the readings that are stored: no delivery is refused for being a
\* duplicate.  Whenever the first of two deliveries of the same message has
\* stored a reading and the second met no persistence failure, the second
\* has stored one too, with an equal field map.
C17_NoDeduplication ==
  ( /\ pc[1] = "done" /\ pc[2] = "done"
    /\ msg[1] = msg[2]
    /\ adminOps = 0
    /\ StoredBy(1) # {}
    /\ ~loc[2].dbFailed )
  => /\ Cardinality(StoredBy(2)) = 1
     /\ \A i \in StoredBy(1), j \in StoredBy(2) :
          readings[i].data = readings[j].data

\* ------------------------------------------------- notification dispatch
\* The 'alert' events handler h has published.
AlertEventsBy(h) ==
  {i \in 1..Len(events) : events[i].by = h /\ events[i].name = "alert"}

\* C18: when checkThresholds has returned for a reading that crosses the
\* upper threshold of a rule with e-mail notification, not in cooldown, and
\* no persistence operation failed, then whatever the dispatcher answered the
\* Alert Log of the firing is written, the rule's lastTriggered and
\* triggerCount are updated, the alert event is published and every rule the
\* reading has a value for has been evaluated.
C18_FiringSurvivesDispatchFailure ==
  \A h \in Handlers : \A a \in RuleIds :
    ( /\ loc[h].engineReturned
      /\ ~loc[h].dbFailed
      /\ a \in loc[h].toEvaluate
      /\ CrossesUpper(h, a)
      /\ alerts[a].email.enabled /\ alerts[a].email.recipients > 0
      /\ \A g \in Handlers \ {h} : a \notin InvokedIds(g) )
    => /\ LogsBy(h, a) # {}
       /\ alerts[a].lastTriggered # {}
       /\ alerts[a].triggerCount >= 1
       /\ AlertEventsBy(h) # {} \/ loc[h].outcome = "unpublished"
       /\ InvokedIds(h) = loc[h].toEvaluate

\* ----------------------------------------------------------- rule creation
\* C19: at most one rule exists for each (device, parameter) pair; a request
\* to create a rule for a pair that has one is answered with an error, and a
\* request answered with an error changes no rule.
C19_OneRulePerParameter ==
  /\ [](\A i, j \in 1..Len(alerts) :
          ( /\ alerts[i].deviceId = alerts[j].deviceId
            /\ alerts[i].parameterName = alerts[j].parameterName ) => i = j)
  /\ [][ \A r \in Requests :
           /\ ( /\ requests[r].pc = "save" /\ requests'[r].pc = "done"
                /\ \E i \in 1..Len(alerts) :
                     /\ alerts[i].deviceId = requests[r].serialNumber
                     /\ alerts[i].parameterName = requests[r].parameterId.name )
              => requests'[r].response \in {409, 500}
           /\ ( /\ requests[r].pc # "done" /\ requests'[r].pc = "done"
                /\ requests'[r].response # 201 )
              => alerts' = alerts ]_vars

\* C19 witness: of two requests for the same pair, one has created the rule
\* and the other was answered 409.
C19_Witness ==
  \E r1, r2 \in Requests :
    /\ requests[r1].response = 201 /\ requests[r2].response = 409
    /\ requests[r1].serialNumber = requests[r2].serialNumber
    /\ requests[r1].parameterId = requests[r2].parameterId
    /\ Len(alerts) = 1

\* ------------------------------------------------------------ validateValue
\* The type check the claim states for each data type.
PassesTypeCheck(param, value) ==
  CASE param.dataType = "boolean" -> value.t = "bool"
    [] param.dataType = "integer" -> value.t = "num"
    [] param.dataType = "unsigned_integer" -> value.t = "num" /\ value.v >= 0
    [] param.dataType \in {"float", "sfloat"} -> value.t \in {"num", "half"}
    [] param.dataType = "string" -> value.t \in {"str", "numstr"}

\* n <= value and value <= n as JavaScript evaluates them: false when the
\* value does not convert to a number.
JsGe(x, n) == \/ x.t \in {"num", "bool", "numstr", "null", "half"} /\ x.v >= n
JsLe(x, n) == \/ x.t \in {"num", "bool", "numstr", "null"} /\ x.v <= n
              \/ x.t = "half" /\ x.v < n

\* The value lies within every bound of the parameter that is set.
WithinBounds(param, value) ==
  /\ \A m \in param.minValue : JsGe(value, m)
  /\ \A m \in param.maxValue : JsLe(value, m)

\* C20: validateValue answers valid iff the value passes the type check of
\* the parameter's data type and minValue <= value, value <= maxValue hold
\* for every bound that is set.
C20_ValidIffTypeAndBounds ==
  call.result \in {"valid", "invalid"} =>
    ( call.result = "valid"
      <=> (PassesTypeCheck(call.param, call.value)
           /\ WithinBounds(call.param, call.value)) )

\* The value is below n, above n: no string that is not a numeral is.
Below(x, n) == x # StrV /\ x.v < n
Above(x, n) == x # StrV /\ (x.v > n \/ (x.t = "half" /\ x.v >= n))

\* C20, amended: validateValue answers valid iff the value passes the type
\* check of the parameter's data type and is neither below minValue when it
\* is set nor above maxValue when it is set; -5 against unsigned_integer and
\* 5.5 against integer are invalid, 50 against min 0, max 100 is valid.
C20_ValidIffTypeAndNoBoundViolated ==
  call.result \in {"valid", "invalid"} =>
    /\ call.result = "valid"
       <=> /\ PassesTypeCheck(call.param, call.value)
           /\ \A m \in call.param.minValue : ~Below(call.value, m)
           /\ \A m \in call.param.maxValue : ~Above(call.value, m)
    /\ (call.param.dataType = "unsigned_integer" /\ call.value = Num(0 - 5))
       => call.result = "invalid"
    /\ (call.param.dataType = "integer" /\ call.value = Half(5))
       => call.result = "invalid"
    /\ ( /\ call.param.dataType \in {"integer", "unsigned_integer", "float", "sfloat"}
         /\ call.param.minValue = {0} /\ call.param.maxValue = {100}
         /\ call.value = Num(50) )
       => call.result = "valid"

\* C20 witness: 50 has been validated against an integer parameter with
\* minValue 0 and maxValue 100, and is valid.
C20_Witness ==
  /\ call.fn = "validateValue" /\ call.result = "valid"
  /\ call.param = [dataType |-> "integer", minValue |-> {0}, maxValue |-> {100}]
  /\ call.value = Num(50)

\* C20 witness: a string that is not a numeral has been validated against a
\* string parameter with maxValue 3, and is valid.
C20_WitnessString ==
  /\ call.fn = "validateValue" /\ call.result = "valid"
  /\ call.param = [dataType |-> "string", minValue |-> {}, maxValue |-> {3}]
  /\ call.value = StrV

\* ------------------------------------------------------------ aggregation
\* The readings the call is about: of the device, within the range that was
\* given, with a value for the parameter that is not null.
Counted ==
  {i \in 1..Len(readings) :
     /\ readings[i].deviceId = call.deviceId
     /\ \A t \in call.startTime : t <= readings[i].timestamp.v
     /\ \A t \in call.endTime : readings[i].timestamp.v <= t
     /\ call.parameterName \in DOMAIN readings[i].data
     /\ readings[i].data[call.parameterName] # NullV}

\* The width of a bucket: 5 minutes, or 1 hour (also for an unknown name).
BucketWidth == IF call.interval = "5m" THEN 5 ELSE 60

BucketStart(i) ==
  readings[i].timestamp.v - (readings[i].timestamp.v % BucketWidth)

ValueOf(i) == readings[i].data[call.parameterName].v

RECURSIVE Total(_)
Total(I) ==
  IF I = {} THEN 0
  ELSE LET i == CHOOSE j \in I : TRUE IN ValueOf(i) + Total(I \ {i})

\* C21: getAggregatedParameter puts every counted reading into exactly one
\* entry, the one whose start is timestamp - (timestamp mod interval); every
\* entry is the bucket of at least one counted reading and has the count,
\* min, max and average of the counted readings of its bucket; the entries
\* are in ascending order of start; readings at 0:05, 0:55 and 1:05 with 1h
\* buckets give bucket 0:00 with count 2 and bucket 1:00 with count 1.
C21_OneBucketPerReading ==
  (call.fn = "getAggregatedParameter" /\ call.returned) =>
    LET r == call.result
        bucket(n) == {i \in Counted : BucketStart(i) = r[n].timestamp}
    IN  /\ \A i \in Counted :
             Cardinality({n \in 1..Len(r) : r[n].timestamp = BucketStart(i)}) = 1
        /\ \A n \in 1..Len(r) :
             /\ bucket(n) # {}
             /\ r[n].count = Cardinality(bucket(n))
             /\ \E i \in bucket(n) : r[n].min = ValueOf(i)
             /\ \E i \in bucket(n) : r[n].max = ValueOf(i)
             /\ \A i \in bucket(n) : r[n].min <= ValueOf(i) /\ ValueOf(i) <= r[n].max
             /\ r[n].avg = <<Total(bucket(n)), Cardinality(bucket(n))>>
        /\ \A n, m \in 1..Len(r) : n < m => r[n].timestamp < r[m].timestamp
        /\ ( /\ Counted = 1..3
             /\ {readings[i].timestamp.v : i \in Counted} = {5, 55, 65}
             /\ call.interval = "1h" )
           => /\ Len(r) = 2
              /\ r[1].timestamp = 0 /\ r[1].count = 2
              /\ r[2].timestamp = 60 /\ r[2].count = 1

\* C21 witness: the readings at 0:05, 0:55 and 1:05 have been aggregated with
\* 1h buckets into two entries.
C21_Witness ==
  /\ call.fn = "getAggregatedParameter" /\ call.returned
  /\ call.interval = "1h" /\ call.startTime = {} /\ call.endTime = {}
  /\ Counted = 1..3
  /\ readings[1].timestamp.v = 5 /\ readings[2].timestamp.v = 55
  /\ readings[3].timestamp.v = 65
  /\ Len(call.result) = 2
  /\ call.result[1].count = 2 /\ call.result[2].count = 1

\* C21 witness: a reading whose field is null and one whose field is absent
\* have been left out of the only entry.
C21_WitnessNullAndAbsent ==
  /\ call.fn = "getAggregatedParameter" /\ call.returned
  /\ \A i \in 1..3 : readings[i].deviceId = call.deviceId
  /\ readings[1].data = [temperature |-> NullV]
  /\ readings[2].data = [humidity |-> Num(1)]
  /\ readings[3].data = [temperature |-> Num(3)]
  /\ Len(call.result) = 1 /\ call.result[1].count = 1

\* ------------------------------------------------------- trigger decision
\* The reading of handler h is above the enabled upper threshold of rule a
\* and below its enabled lower threshold.
CrossesBoth(h, a) ==
  LET rule == alerts[a]
      data == RestWithoutTimestamp(msg[h].payload)
  IN  /\ CrossesUpper(h, a)
      /\ rule.lowerThreshold.enabled
      /\ \E l \in rule.lowerThreshold.value : JsLt(data[rule.parameterName], l)

\* C22: when checkThresholds has returned for a reading that is above the
\* upper and below the lower threshold of an enabled rule with both
\* thresholds enabled, that no other reading was evaluated against (so the
\* rule is not in cooldown), and no persistence operation failed, exactly one
\* Alert Log of the rule exists for the reading and its thresholdType is
\* 'upper'; and no reading ever has more than one Alert Log of a rule.
C22_InvertedBoundsLogUpperOnce ==
  \A h \in Handlers : \A a \in RuleIds :
    /\ Cardinality(LogsBy(h, a)) <= 1
    /\ ( /\ loc[h].engineReturned
         /\ ~loc[h].dbFailed
         /\ a \in loc[h].toEvaluate
         /\ CrossesBoth(h, a)
         /\ \A g \in Handlers \ {h} : a \notin InvokedIds(g) )
       => /\ Cardinality(LogsBy(h, a)) = 1
          /\ \A i \in LogsBy(h, a) : alertLogs[i].thresholdType = "upper"

\* ------------------------------------------------------- trigger recording
\* The handlers whose reading crossed a threshold of rule a and for which
\* checkThresholds has returned without a persistence failure.
FiredOn(a) ==
  {h \in Handlers : /\ loc[h].engineReturned
                    /\ ~loc[h].dbFailed
                    /\ a \in loc[h].toEvaluate
                    /\ Crosses(h, a)}

\* C23: when the evaluations of the readings that crossed a threshold of a
\* rule have completed, each outside the cooldown of the others (here: the
\* rule's cooldownPeriod is 0 or one reading crossed), the rule's triggerCount
\* has grown by the number of these firings and lastTriggered is set.
C23_NoTriggerRecordLost ==
  \A a \in RuleIds :
    ( /\ \A h \in Handlers : pc[h] \in {"idle", "done"}
      /\ FiredOn(a) # {}
      /\ \A h \in Handlers : a \in InvokedIds(h) => h \in FiredOn(a)
      /\ alerts[a].cooldownPeriod = 0 \/ Cardinality(FiredOn(a)) = 1 )
    => /\ alerts[a].triggerCount = Cardinality(FiredOn(a))
       /\ alerts[a].lastTriggered # {}

\* ----------------------------------------------------------- arrival order
\* C24: of two telemetry messages of one device that carry data, the one delivered second has
\* no effect (no reading stored, no rule evaluated, no event published)
\* before the handler of the first has ended, and the readings and events of
\* the two are in arrival order.
C24_OneMessageAtATime ==
  \A h1, h2 \in Handlers :
    ( /\ h1 < h2
      /\ pc[h2] # "idle"
      /\ Part(msg[h1].topic, 4) = "telemetry"
      /\ Part(msg[h2].topic, 4) = "telemetry"
      /\ SerialOf(h1) = SerialOf(h2)
      /\ DOMAIN RestWithoutTimestamp(msg[h1].payload) # {}
      /\ DOMAIN RestWithoutTimestamp(msg[h2].payload) # {} )
    => /\ ( \/ StoredBy(h2) # {}
            \/ EventsBy(h2) # {}
            \/ loc[h2].invoked # {} ) => pc[h1] = "done"
       /\ \A i \in StoredBy(h1), j \in StoredBy(h2) : i < j
       /\ \A i \in EventsBy(h1), j \in EventsBy(h2) : i < j

\* --------------------------------------------------------- telemetry event
TelemetryEventsBy(h) ==
  {i \in 1..Len(events) : events[i].by = h /\ events[i].name = "telemetry"}

\* C25: every 'telemetry' event carries the serial number and the reading
\* its handler stored, and is published after checkThresholds has returned
\* for that reading and after every 'alert' event of the reading; a handler
\* publishes at most one.  When the handler of a stored reading has ended
\* without a persistence failure it has published exactly one, unless the
\* emit itself failed.
C25_OneTelemetryEventPerReading ==
  \A h \in Handlers :
    /\ Cardinality(TelemetryEventsBy(h)) <= 1
    /\ \A i \in TelemetryEventsBy(h) :
         /\ events[i].ref \in StoredBy(h)
         /\ events[i].serialNumber = readings[events[i].ref].serialNumber
         /\ loc[h].engineReturned
         /\ \A j \in AlertEventsBy(h) : j < i
    /\ ( /\ pc[h] = "done"
         /\ StoredBy(h) # {}
         /\ ~loc[h].dbFailed
         /\ loc[h].outcome # "unpublished" )
       => Cardinality(TelemetryEventsBy(h)) = 1

\* C25 witness: a reading was stored and evaluated against a rule, and its
\* one 'telemetry' event has been published.
C25_Witness ==
  \E h \in Handlers :
    /\ pc[h] = "done" /\ loc[h].outcome = "published"
    /\ loc[h].invoked # {}
    /\ Cardinality(StoredBy(h)) = 1
    /\ \E i \in TelemetryEventsBy(h) : events[i].ref \in StoredBy(h)

\* ------------------------------------------------------------ notification
\* C26: when checkThresholds has returned for a reading that crossed a
\* threshold of a rule with e-mail notification and a recipient, that no
\* other reading was evaluated against, and no persistence operation failed,
\* the firing has one Alert Log (which records the dispatcher's answer), whose
\* notificationsSent.email.sent is true only if the rule's e-mail notification
\* is enabled with at least one recipient (the dispatcher was invoked); and no
\* Alert Log of a rule without e-mail notification records a sent e-mail.
C26_LogRecordsNotification ==
  /\ \A i \in 1..Len(alertLogs) :
       alertLogs[i].emailSent
       => /\ alerts[alertLogs[i].alertId].email.enabled
          /\ alerts[alertLogs[i].alertId].email.recipients > 0
  /\ \A a \in RuleIds : \A h \in FiredOn(a) :
       ( /\ alerts[a].email.enabled /\ alerts[a].email.recipients > 0
         /\ \A g \in Handlers \ {h} : a \notin InvokedIds(g) )
       => Cardinality(LogsBy(h, a)) = 1

\* ------------------------------------------------------- count and logs
\* The Alert Logs that reference rule a.
LogsOf(a) == {i \in 1..Len(alertLogs) : alertLogs[i].alertId = a}

C28_LastSeenNeverDecreases ==
  [][ /\ \A s \in Serials : \A t \in devices[s].lastSeen :
           \E u \in devices'[s].lastSeen : u >= t
      /\ \A h \in Handlers :
           ( /\ pc[h] \in {"statusSave", "registrationSave", "updateLastSeen"}
             /\ devices'[SerialOf(h)].status # devices[SerialOf(h)].status )
           => devices[SerialOf(h)].status = loc[h].deviceStatus ]_vars

\* --------------------------------------------------------- disabled device
\* C29: a step of the handler of a message for a device whose enabled flag is
\* false does not change the device's status or lastSeen, stores no reading
\* and publishes no event.
C29_DisabledDeviceIsFrozen ==
  [][ \A h \in Handlers :
        ( /\ pc[h] # "idle" /\ pc'[h] # pc[h]
          /\ devices[SerialOf(h)].registered
          /\ ~devices[SerialOf(h)].enabled )
        => /\ devices'[SerialOf(h)] = devices[SerialOf(h)]
           /\ readings' = readings
           /\ events' = events ]_vars

\* ------------------------------------------------------------ two clients
\* C30: what mqtt/client.js does with a telemetry message (it holds of
\* SpecMessages) holds of the namespaced client too: a message that passed
\* the drop checks, for a device with no enabled parameter and a serial number
\* the reading's schema accepts, whose handler has ended without a persistence
\* failure, is stored as one reading with the message's fields.
C30_SameReadingStored ==
  \A h \in Handlers :
    ( /\ pc[h] = "done"
      /\ "telemetry" \in {Part(msg[h].topic, 4), Part(msg[h].topic, 5)}
      /\ loc[h].accepted
      /\ ~loc[h].dbFailed
      /\ getDeviceParameters(SerialOf(h)) = {}
      /\ telemetrySerialValidator(SerialOf(h)) )
    => /\ Cardinality(StoredBy(h)) = 1
       /\ \A i \in StoredBy(h) :
            /\ readings[i].data = RestWithoutTimestamp(msg[h].payload)
            /\ readings[i].quality = "good"
            /\ readings[i].metadata.source = "mqtt"

=============================================================================
